---- MODULE Spec2Model ----
(***************************************************************************)
(* Model of the quality scoring engine of metadata-quality-app:            *)
(*   - the RDF store helpers (getSubjectsByType, getObjects, ...),         *)
(*   - the metric evaluators and evaluateMetric,                           *)
(*   - calculateDimension / calculateQuality,                              *)
(*   - the batch URL endpoint (PUT handler) and its client.                *)
(* Numbers that the code computes with JavaScript doubles are modelled as  *)
(* exact rationals <<numerator, denominator>> in lowest terms.             *)
(***************************************************************************)
EXTENDS Integers, Sequences, FiniteSets, TLC

VARIABLES
    store,            \* the N3 Store: a set of quads
    urlCheckEnabled,  \* currentConfig.enabled (url-check-config.ts)
    urlCheckTimeout,  \* currentConfig.timeout (url-check-config.ts)
    vocab,            \* KNOWN_LICENSES, KNOWN_ACCESS_RIGHTS, ... (config.ts), "null" before the load
    cachedConfig,     \* the loaded MQA configuration (config.ts)
    configFile,       \* /mqa-config.json as the server holds it
    mpc,              \* evaluateMetric: position of the running evaluation
    metricConfig,     \* evaluateMetric: the MetricConfig being evaluated
    urlsToCheck,      \* evaluate*URLStatus: the collected URLs
    chunkIdx,         \* evaluate*URLStatus: index of the chunk being checked
    allResults,       \* evaluate*URLStatus: results gathered so far
    statusConfig,     \* evaluate*URLStatus: config, the copy getUrlCheckConfig() returned
    batchRequests,    \* evaluate*URLStatus: the checkUrlStatusBatch calls made so far
    metricResult,     \* evaluateMetric: the returned MetricResult
    dpc,              \* calculateDimension: position
    metricsConfig,    \* calculateDimension: the configured metric list
    dimensionMaxScore,\* calculateDimension: the dimension's maxScore
    metrics,          \* calculateDimension: outcomes pushed so far
    weightedSum,      \* calculateDimension: accumulator
    totalWeight,      \* calculateDimension: accumulator
    dimension,        \* calculateDimension: the returned QualityDimension
    qpc,              \* calculateQuality: position
    profile,          \* calculateQuality: the requested profile id
    dimensionNames,   \* calculateQuality: Object.keys(dimensionsConfig)
    dimensions,       \* calculateQuality: dimension name -> QualityDimension
    batchLog,         \* calculateQuality: the batch results each dimension's metrics received
    assessment,       \* calculateQuality: the returned QualityAssessment
    bpc,              \* batch check: position of client and server
    batchUrls,        \* batch check: the urls of the request
    probes,           \* batch check: per input position, the pending or finished probe
    serverResponse,   \* batch check: the PUT handler's response
    clientResults,    \* batch check: what checkUrlStatusBatch returned
    urlCache,         \* url-status-client.ts: url -> { result, timestamp }
    otherEntries,     \* urlCache entries of URLs outside the explored ones: their number and timestamp
    clock,            \* Date.now()
    cachedCalls,      \* checkUrlStatusCached: per call, its position and locals
    postRequests,     \* the POST requests sent to /api/check-url-status so far
    ppc,              \* PUT handler, step by step: position of the handler and its caller
    probeRuns,        \* PUT handler, step by step: per input position, the running checkUrlStatus call
    pendingChunks,    \* PUT handler, step by step: chunks the caller has still to send
    vocabCalls,       \* config.ts: the running and finished calls of the four membership checks
    vocabFetches,     \* config.ts: per vocabulary, how many times its file has been fetched
    vocabAssignments, \* config.ts: how many times loadAllVocabularies has assigned the sets
    validation,       \* useValidation: the hook's state (result, isLoading, progress, error)
    validateCalls     \* useValidation: the running and finished calls of validate

vars == <<store, urlCheckEnabled, urlCheckTimeout, vocab, cachedConfig, configFile, mpc, metricConfig, urlsToCheck,
          chunkIdx, allResults, statusConfig, batchRequests, metricResult, dpc, metricsConfig, dimensionMaxScore,
          metrics, weightedSum, totalWeight, dimension, qpc, profile, dimensionNames,
          dimensions, batchLog, assessment, bpc, batchUrls, probes, serverResponse,
          clientResults, urlCache, otherEntries, clock, cachedCalls, postRequests,
          ppc, probeRuns, pendingChunks, vocabCalls, vocabFetches, vocabAssignments,
          validation, validateCalls>>

(***************************************************************************)
(* Bounds of the model.                                                    *)
(***************************************************************************)
MaxEntities == 2      \* at most this many datasets and this many distributions in a store
MaxBatch == 3         \* longest URL list whose probes are explored one by one
MaxMetrics == 2       \* at most this many configured metrics in a dimension
MaxWeight == 2        \* metric weights range over 0..MaxWeight
MaxFactor == 3        \* weight scaling factors range over 1..MaxFactor

(***************************************************************************)
(* Exact arithmetic for JavaScript numbers.                                *)
(***************************************************************************)
RECURSIVE GCD(_, _)
GCD(a, b) == IF b = 0 THEN a ELSE GCD(b, a % b)

Abs(n) == IF n < 0 THEN -n ELSE n

\* n/d in lowest terms; a zero denominator gives NaN (0/0) or an infinity (n/0)
NaN == <<0, 0>>
Rat(n, d) ==
    IF d = 0 THEN (IF n = 0 THEN NaN ELSE <<IF n > 0 THEN 1 ELSE -1, 0>>)
    ELSE IF n = 0 THEN <<0, 1>>
    ELSE LET g == GCD(Abs(n), Abs(d))
             s == IF d < 0 THEN -1 ELSE 1
         IN  <<(s * n) \div g, (s * d) \div g>>

RInt(n) == <<n, 1>>
RAdd(a, b) == Rat(a[1] * b[2] + b[1] * a[2], a[2] * b[2])
RMul(a, b) == Rat(a[1] * b[1], a[2] * b[2])
RDiv(a, b) == Rat(a[1] * b[2], a[2] * b[1])
\* comparisons; every comparison with NaN is false
RLe(a, b) == a # NaN /\ b # NaN /\ a[1] * b[2] <= b[1] * a[2]
RLt(a, b) == a # NaN /\ b # NaN /\ a[1] * b[2] < b[1] * a[2]

\* Math.round: the nearest integer, halves towards +Infinity
MathRound(a) == (2 * a[1] + a[2]) \div (2 * a[2])

\* String.prototype.startsWith
startsWith(s, prefix) ==
    /\ Len(s) >= Len(prefix)
    /\ SubSeq(s, 1, Len(prefix)) = prefix

Range(s) == {s[i] : i \in DOMAIN s}

\* one step of the store's iteration: the next member of the set p[2] joins the array p[1]
MoveOne(p) ==
    IF p[2] = {} THEN p
    ELSE LET x == CHOOSE y \in p[2] : TRUE IN <<Append(p[1], x), p[2] \ {x}>>

MoveFour(p) == MoveOne(MoveOne(MoveOne(MoveOne(p))))
MoveEight(p) == MoveFour(MoveFour(p))

RECURSIVE Drain(_)
Drain(p) == IF p[2] = {} THEN p[1] ELSE Drain(MoveEight(p))

\* an array holding the members of a set, in the store's iteration order
SetToSeq(S) == Drain(<<<<>>, S>>)

RECURSIVE SumSeq(_)
SumSeq(s) == IF s = <<>> THEN 0 ELSE Head(s) + SumSeq(Tail(s))

(***************************************************************************)
(* RDF terms, quads and the store helpers (rdf.ts).                        *)
(***************************************************************************)
NAMESPACES ==
    [rdf  |-> "http://www.w3.org/1999/02/22-rdf-syntax-ns#",
     dcat |-> "http://www.w3.org/ns/dcat#",
     dct  |-> "http://purl.org/dc/terms/"]

namedNode(v) == [termType |-> "NamedNode", value |-> v]
blankNode(v) == [termType |-> "BlankNode", value |-> v]
literal(v) == [termType |-> "Literal", value |-> v]
quad(s, p, o) == [subject |-> s, predicate |-> p, object |-> o]

\* store.getQuads(subject, predicate, null, null) with the subject given as a string id
getQuads(st, subjectUri, predicateUri) ==
    {q \in st : q.subject = namedNode(subjectUri) /\ q.predicate = predicateUri}

getSubjectsByType(st, typeUri) ==
    LET rdfType == NAMESPACES.rdf \o "type"
        subjects == {q.subject : q \in {r \in st : r.predicate = rdfType
                                                   /\ r.object = namedNode(typeUri)}}
        arr == SetToSeq(subjects)
    IN  [i \in DOMAIN arr |-> arr[i].value]

getObjects(st, subjectUri, predicateUri) ==
    LET objects == {q.object : q \in {r \in st : r.subject = namedNode(subjectUri)
                                                 /\ r.predicate = predicateUri}}
        arr == SetToSeq(objects)
    IN  [i \in DOMAIN arr |-> arr[i].value]

\* null is modelled by "null"; the empty string "" stays a (falsy) string
getObjectValue(st, subjectUri, predicateUri) ==
    LET objects == getObjects(st, subjectUri, predicateUri)
    IN  IF Len(objects) > 0 THEN objects[1] ELSE "null"

\* JavaScript truthiness of a string | null
Truthy(v) == v # "null" /\ v # ""

(***************************************************************************)
(* Strings: the JavaScript string functions the code uses.                 *)
(***************************************************************************)
UpperLetters == "ABCDEFGHIJKLMNOPQRSTUVWXYZ"
LowerLetters == "abcdefghijklmnopqrstuvwxyz"

MapChar(c, from, to) ==
    IF \E i \in 1..Len(from) : SubSeq(from, i, i) = c
    THEN LET i == CHOOSE j \in 1..Len(from) : SubSeq(from, j, j) = c IN SubSeq(to, i, i)
    ELSE c

RECURSIVE MapString(_, _, _)
MapString(s, from, to) ==
    IF Len(s) = 0 THEN ""
    ELSE MapChar(SubSeq(s, 1, 1), from, to) \o MapString(SubSeq(s, 2, Len(s)), from, to)

toUpperCase(s) == MapString(s, LowerLetters, UpperLetters)
toLowerCase(s) == MapString(s, UpperLetters, LowerLetters)
includes(s, c) == \E i \in 1..Len(s) : SubSeq(s, i, i) = c

\* id.replace(/_/g, ' ').toUpperCase()
metricName(id) == toUpperCase(MapString(id, "_", " "))

(***************************************************************************)
(* Vocabularies (config.ts, second half).                                  *)
(***************************************************************************)
VocabularyNames ==
    {"KNOWN_LICENSES", "KNOWN_ACCESS_RIGHTS", "MACHINE_READABLE_FORMATS",
     "NON_PROPRIETARY_FORMATS", "FILE_TYPES", "MEDIA_TYPES"}

\* the uris listed in the files under /data/ that loadAllVocabularies fetches
VocabularyFiles ==
    [KNOWN_LICENSES           |-> {"http://lic.example/cc-by"},
     KNOWN_ACCESS_RIGHTS      |-> {"http://ar.example/PUBLIC"},
     MACHINE_READABLE_FORMATS |-> {"text/csv", "application/json"},
     NON_PROPRIETARY_FORMATS  |-> {"text/csv"},
     FILE_TYPES               |-> {"http://ft.example/CSV"},
     MEDIA_TYPES              |-> {"text/csv"}]

NullSet == [isNull |-> TRUE, uris |-> {}]
LoadedSet(S) == [isNull |-> FALSE, uris |-> S]

\* what the fetches of one load can do, per file: "ok", or "fail" (a non-OK response or
\* a thrown error).  Explored: no file fails, exactly one file fails, every file fails.
VocabFetchOutcomes ==
    {o \in [VocabularyNames -> {"ok", "fail"}] :
        LET failed == {n \in VocabularyNames : o[n] = "fail"}
        IN  Cardinality(failed) <= 1 \/ failed = VocabularyNames}

\* loadVocabulary letting a failed fetch through: the set is never assigned
loadVocabularyRethrowing(name, outcome) ==
    IF outcome = "ok" THEN LoadedSet(VocabularyFiles[name]) ELSE NullSet

loadVocabulary(name, outcome) ==
    IF outcome = "ok" THEN LoadedSet(VocabularyFiles[name]) ELSE LoadedSet({})

loadAllVocabularies(v, outcomes) ==
    IF ~v.KNOWN_LICENSES.isNull THEN v
    ELSE [n \in VocabularyNames |-> loadVocabulary(n, outcomes[n])]

ensureVocabulariesLoaded(v, outcomes) ==
    IF v.KNOWN_LICENSES.isNull THEN loadAllVocabularies(v, outcomes) ELSE v

FormatLabelKeys ==
    {"RDF", "TURTLE", "TTL", "JSONLD", "JSON-LD", "NT", "NTRIPLES", "JSON", "XML", "CSV",
     "PDF", "HTML", "XLSX", "XLS"}

FORMAT_LABELS(k) ==
    CASE k = "RDF" -> "application/rdf+xml"
      [] k \in {"TURTLE", "TTL"} -> "text/turtle"
      [] k \in {"JSONLD", "JSON-LD"} -> "application/ld+json"
      [] k \in {"NT", "NTRIPLES"} -> "application/n-triples"
      [] k = "JSON" -> "application/json"
      [] k = "XML" -> "application/xml"
      [] k = "CSV" -> "text/csv"
      [] k = "PDF" -> "application/pdf"
      [] k = "HTML" -> "text/html"
      [] k = "XLSX" -> "application/vnd.openxmlformats-officedocument.spreadsheetml.sheet"
      [] k = "XLS" -> "application/vnd.ms-excel"

normalizeFormat(format) ==
    IF includes(format, "/") THEN toLowerCase(format)
    ELSE LET upper == toUpperCase(format)
         IN  IF upper \in FormatLabelKeys THEN FORMAT_LABELS(upper) ELSE toLowerCase(format)

\* the four membership checks, evaluated on the sets as they are after
\* ensureVocabulariesLoaded; a set that is still null answers false (?. || false)
isMachineReadable(v, format) ==
    ~v.MACHINE_READABLE_FORMATS.isNull /\ normalizeFormat(format) \in v.MACHINE_READABLE_FORMATS.uris

isNonProprietary(v, format) ==
    ~v.NON_PROPRIETARY_FORMATS.isNull /\ normalizeFormat(format) \in v.NON_PROPRIETARY_FORMATS.uris

isKnownLicense(v, license) ==
    ~v.KNOWN_LICENSES.isNull /\ license \in v.KNOWN_LICENSES.uris

isKnownAccessRights(v, accessRights) ==
    ~v.KNOWN_ACCESS_RIGHTS.isNull /\ accessRights \in v.KNOWN_ACCESS_RIGHTS.uris

(***************************************************************************)
(* Metric evaluators (metrics-evaluator.ts).                               *)
(***************************************************************************)
NoParams == [undefined |-> TRUE]
CountParams(count, total) == [count |-> count, total |-> total]

\* JSON.stringify({ key, params }), kept as the record the UI parses back
formatMetricDetail(key, params) == [key |-> key, params |-> params]

Dataset == NAMESPACES.dcat \o "Dataset"
Distribution == NAMESPACES.dcat \o "Distribution"

Outcome(value, passed, details) == [value |-> value, passed |-> passed, details |-> details]

\* percentage = (count / total) * 100
Percentage(count, total) == RMul(Rat(count, total), RInt(100))

CountIn(arr, Holds(_)) == Cardinality({i \in DOMAIN arr : Holds(arr[i])})

\* the shape shared by the evaluators that test store.getQuads(...).length > 0
QuadsAvailability(st, typeUri, predicateUri, emptyKey, key) ==
    LET subjects == getSubjectsByType(st, typeUri)
        Has(s) == Cardinality(getQuads(st, s, predicateUri)) > 0
        count == CountIn(subjects, Has)
        percentage == Percentage(count, Len(subjects))
    IN  IF Len(subjects) = 0
        THEN Outcome(RInt(0), FALSE, formatMetricDetail(emptyKey, NoParams))
        ELSE Outcome(percentage, RLt(RInt(0), percentage),
                     formatMetricDetail(key, CountParams(count, Len(subjects))))

\* the shape shared by the evaluators that test a property with Holds(getObjectValue(...))
ValueAvailability(st, typeUri, Holds(_), emptyKey, key) ==
    LET subjects == getSubjectsByType(st, typeUri)
        count == CountIn(subjects, Holds)
        percentage == Percentage(count, Len(subjects))
    IN  IF Len(subjects) = 0
        THEN Outcome(RInt(0), FALSE, formatMetricDetail(emptyKey, NoParams))
        ELSE Outcome(percentage, RLt(RInt(0), percentage),
                     formatMetricDetail(key, CountParams(count, Len(subjects))))

HasValue(st, s, predicateUri) == Truthy(getObjectValue(st, s, predicateUri))

evaluateKeywordAvailability(st) ==
    QuadsAvailability(st, Dataset, NAMESPACES.dcat \o "keyword",
        "metricDetails.noDatasetsFound", "metricDetails.datasetsHaveKeywords")

evaluateThemeAvailability(st) ==
    QuadsAvailability(st, Dataset, NAMESPACES.dcat \o "theme",
        "metricDetails.noDatasetsFound", "metricDetails.datasetsHaveThemes")

evaluateSpatialAvailability(st) ==
    QuadsAvailability(st, Dataset, NAMESPACES.dct \o "spatial",
        "metricDetails.noDatasetsFound", "metricDetails.datasetsHaveSpatialCoverage")

evaluateTemporalAvailability(st) ==
    QuadsAvailability(st, Dataset, NAMESPACES.dct \o "temporal",
        "metricDetails.noDatasetsFound", "metricDetails.datasetsHaveTemporalCoverage")

evaluateDownloadURLAvailability(st) ==
    LET Holds(s) == HasValue(st, s, NAMESPACES.dcat \o "downloadURL")
    IN  ValueAvailability(st, Distribution, Holds,
            "metricDetails.noDistributionsFound", "metricDetails.distributionsHaveDownloadURL")

evaluateFormatAvailability(st) ==
    LET Holds(s) == HasValue(st, s, NAMESPACES.dct \o "format")
    IN  ValueAvailability(st, Distribution, Holds,
            "metricDetails.noDistributionsFound", "metricDetails.distributionsHaveFormat")

evaluateMediaTypeAvailability(st) ==
    LET Holds(s) == HasValue(st, s, NAMESPACES.dcat \o "mediaType")
    IN  ValueAvailability(st, Distribution, Holds,
            "metricDetails.noDistributionsFound", "metricDetails.distributionsHaveMediaType")

evaluateFormatMediaTypeVocabulary(st) ==
    LET Holds(s) ==
            LET format == getObjectValue(st, s, NAMESPACES.dct \o "format")
                mediaType == getObjectValue(st, s, NAMESPACES.dcat \o "mediaType")
            IN  \/ (Truthy(format) /\ includes(normalizeFormat(format), "/"))
                \/ (Truthy(mediaType) /\ includes(mediaType, "/"))
    IN  ValueAvailability(st, Distribution, Holds,
            "metricDetails.noDistributionsFound", "metricDetails.distributionsUseKnownFormat")

evaluateNonProprietaryFormat(st, v) ==
    LET Holds(s) ==
            LET format == getObjectValue(st, s, NAMESPACES.dct \o "format")
            IN  Truthy(format) /\ isNonProprietary(v, format)
    IN  ValueAvailability(st, Distribution, Holds,
            "metricDetails.noDistributionsFound", "metricDetails.distributionsUseNonProprietary")

evaluateMachineReadableFormat(st, v) ==
    LET Holds(s) ==
            LET format == getObjectValue(st, s, NAMESPACES.dct \o "format")
            IN  Truthy(format) /\ isMachineReadable(v, format)
    IN  ValueAvailability(st, Distribution, Holds,
            "metricDetails.noDistributionsFound", "metricDetails.distributionsAreMachineReadable")

\* evaluateLicenseAvailability without its distributions.length === 0 return
evaluateLicenseAvailabilityUnguarded(st) ==
    LET distributions == getSubjectsByType(st, Distribution)
        Holds(s) == HasValue(st, s, NAMESPACES.dct \o "license")
        count == CountIn(distributions, Holds)
        percentage == Percentage(count, Len(distributions))
    IN  Outcome(percentage, RLt(RInt(0), percentage),
                formatMetricDetail("metricDetails.distributionsHaveLicense",
                                   CountParams(count, Len(distributions))))

evaluateLicenseAvailability(st) ==
    LET Holds(s) == HasValue(st, s, NAMESPACES.dct \o "license")
    IN  ValueAvailability(st, Distribution, Holds,
            "metricDetails.noDistributionsFound", "metricDetails.distributionsHaveLicense")

evaluateLicenseVocabulary(st, v) ==
    LET Holds(s) ==
            LET license == getObjectValue(st, s, NAMESPACES.dct \o "license")
            IN  Truthy(license) /\ isKnownLicense(v, license)
    IN  ValueAvailability(st, Distribution, Holds,
            "metricDetails.noDistributionsFound", "metricDetails.distributionsUseKnownLicense")

evaluateAccessRightsAvailability(st) ==
    LET Holds(s) == HasValue(st, s, NAMESPACES.dct \o "accessRights")
    IN  ValueAvailability(st, Dataset, Holds,
            "metricDetails.noDatasetsFound", "metricDetails.datasetsHaveAccessRights")

evaluateAccessRightsVocabulary(st, v) ==
    LET Holds(s) ==
            LET accessRights == getObjectValue(st, s, NAMESPACES.dct \o "accessRights")
            IN  Truthy(accessRights) /\ isKnownAccessRights(v, accessRights)
    IN  ValueAvailability(st, Dataset, Holds,
            "metricDetails.noDatasetsFound", "metricDetails.datasetsUseKnownAccessRights")

evaluateContactPointAvailability(st) ==
    LET Holds(s) == HasValue(st, s, NAMESPACES.dcat \o "contactPoint")
    IN  ValueAvailability(st, Dataset, Holds,
            "metricDetails.noDatasetsFound", "metricDetails.datasetsHaveContactPoint")

evaluatePublisherAvailability(st) ==
    LET Holds(s) == HasValue(st, s, NAMESPACES.dct \o "publisher")
    IN  ValueAvailability(st, Dataset, Holds,
            "metricDetails.noDatasetsFound", "metricDetails.datasetsHavePublisher")

evaluateByteSizeAvailability(st) ==
    LET Holds(s) == HasValue(st, s, NAMESPACES.dcat \o "byteSize")
    IN  ValueAvailability(st, Distribution, Holds,
            "metricDetails.noDistributionsFound", "metricDetails.distributionsHaveByteSize")

evaluateIssuedDateAvailability(st) ==
    LET Holds(s) == HasValue(st, s, NAMESPACES.dct \o "issued")
    IN  ValueAvailability(st, Dataset, Holds,
            "metricDetails.noDatasetsFound", "metricDetails.entitiesHaveIssuedDate")

evaluateModifiedDateAvailability(st) ==
    LET Holds(s) == HasValue(st, s, NAMESPACES.dct \o "modified")
    IN  ValueAvailability(st, Dataset, Holds,
            "metricDetails.noDatasetsFound", "metricDetails.entitiesHaveModifiedDate")

evaluateRightsAvailability(st) ==
    LET Holds(s) == HasValue(st, s, NAMESPACES.dct \o "rights")
    IN  ValueAvailability(st, Distribution, Holds,
            "metricDetails.noDistributionsFound", "metricDetails.distributionsHaveRights")

(***************************************************************************)
(* URL probe results.  An optional field is <<>> (absent) or <<value>>.    *)
(***************************************************************************)
CheckUrlResponse(url, accessible, statusCode, error) ==
    [url |-> url, accessible |-> accessible, statusCode |-> statusCode, error |-> error]

(***************************************************************************)
(* Reachability metrics (metrics-evaluator.ts, lines 281-431).             *)
(***************************************************************************)
chunkSize == 50

\* the slices taken one element too long: array.slice(i, i + chunkSize + 1)
RECURSIVE chunkArrayInclusive(_, _)
chunkArrayInclusive(array, size) ==
    IF Len(array) = 0 THEN <<>>
    ELSE IF Len(array) <= size THEN <<array>>
    ELSE <<SubSeq(array, 1, size + 1)>>
            \o chunkArrayInclusive(SubSeq(array, size + 1, Len(array)), size)

RECURSIVE chunkArray(_, _)
chunkArray(array, size) ==
    IF Len(array) = 0 THEN <<>>
    ELSE IF Len(array) <= size THEN <<array>>
    ELSE <<SubSeq(array, 1, size)>> \o chunkArray(SubSeq(array, size + 1, Len(array)), size)

IsHttpUrl(v) == Truthy(v) /\ (startsWith(v, "http://") \/ startsWith(v, "https://"))

\* the loop that pushes every distribution's http(s) URL, in distribution order
CollectUrls(st, distributions, predicateUri) ==
    SelectSeq([i \in DOMAIN distributions |->
                  getObjectValue(st, distributions[i], predicateUri)], IsHttpUrl)

accessUrlsToCheck(st) ==
    CollectUrls(st, getSubjectsByType(st, Distribution), NAMESPACES.dcat \o "accessURL")

downloadUrlsToCheck(st) ==
    CollectUrls(st, getSubjectsByType(st, Distribution), NAMESPACES.dcat \o "downloadURL")

\* new Map(allResults.map(r => [r.url, r])).get(url)?.accessible : the last result wins
resultAccessible(results, url) ==
    LET at == {i \in DOMAIN results : results[i].url = url}
    IN  at # {} /\ results[CHOOSE i \in at : \A j \in at : j <= i].accessible

accessibleCount(urls, results) ==
    Cardinality({i \in DOMAIN urls : resultAccessible(results, urls[i])})

\* the marker for "none of the early returns was taken"
NoEarlyReturn == Outcome(RInt(0), FALSE, formatMetricDetail("", NoParams))

\* the returns before any request is made, without the test of config.enabled
AccessURLStatusEarlyUnconditional(st, enabled) ==
    LET distributions == getSubjectsByType(st, Distribution)
        urls == accessUrlsToCheck(st)
    IN  IF Len(distributions) = 0
        THEN Outcome(RInt(0), FALSE,
                     formatMetricDetail("metricDetails.noDistributionsFound", NoParams))
        ELSE IF Len(urls) = 0
        THEN Outcome(RInt(0), FALSE,
                     formatMetricDetail("metricDetails.noDistributionsWithAccessURL", NoParams))
        ELSE NoEarlyReturn

\* the returns before any request is made; NoEarlyReturn when the batch loop is entered
AccessURLStatusEarly(st, enabled) ==
    LET distributions == getSubjectsByType(st, Distribution)
        urls == accessUrlsToCheck(st)
    IN  IF Len(distributions) = 0
        THEN Outcome(RInt(0), FALSE,
                     formatMetricDetail("metricDetails.noDistributionsFound", NoParams))
        ELSE IF Len(urls) = 0
        THEN Outcome(RInt(0), FALSE,
                     formatMetricDetail("metricDetails.noDistributionsWithAccessURL", NoParams))
        ELSE IF ~enabled
        THEN Outcome(Percentage(Len(urls), Len(distributions)), Len(urls) > 0,
                     formatMetricDetail("metricDetails.distributionsHaveAccessURLNotChecked",
                                        CountParams(Len(urls), Len(distributions))))
        ELSE NoEarlyReturn

\* the return after the batch loop, results being the concatenated chunk results
AccessURLStatusFinal(st, results) ==
    LET distributions == getSubjectsByType(st, Distribution)
        count == accessibleCount(accessUrlsToCheck(st), results)
    IN  Outcome(Percentage(count, Len(distributions)), count > 0,
                formatMetricDetail("metricDetails.distributionsHaveAccessURL",
                                   CountParams(count, Len(distributions))))

DownloadURLStatusEarly(st, enabled) ==
    LET distributions == getSubjectsByType(st, Distribution)
        urls == downloadUrlsToCheck(st)
    IN  IF Len(distributions) = 0
        THEN Outcome(RInt(0), FALSE,
                     formatMetricDetail("metricDetails.noDistributionsFound", NoParams))
        ELSE IF Len(urls) = 0
        THEN Outcome(RInt(0), FALSE,
                     formatMetricDetail("metricDetails.noDistributionsWithDownloadURL", NoParams))
        ELSE IF ~enabled
        THEN Outcome(Percentage(Len(urls), Len(distributions)), Len(urls) > 0,
                     formatMetricDetail("metricDetails.distributionsHaveDownloadURL",
                                        CountParams(Len(urls), Len(distributions))))
        ELSE NoEarlyReturn

\* DownloadURLStatusFinal dividing by resultMap.size instead of urlsToCheck.length
DownloadURLStatusFinalByMapSize(st, results) ==
    LET urls == downloadUrlsToCheck(st)
        count == accessibleCount(urls, results)
        size == Cardinality({results[i].url : i \in DOMAIN results})
    IN  Outcome(Percentage(count, size), count > 0,
                formatMetricDetail("metricDetails.downloadURLsAccessible",
                                   CountParams(count, size)))

DownloadURLStatusFinal(st, results) ==
    LET urls == downloadUrlsToCheck(st)
        count == accessibleCount(urls, results)
    IN  Outcome(Percentage(count, Len(urls)), count > 0,
                formatMetricDetail("metricDetails.downloadURLsAccessible",
                                   CountParams(count, Len(urls))))

IsContinue(r) == r = NoEarlyReturn

evaluateAccessURLStatus(st, enabled, results) ==
    LET early == AccessURLStatusEarly(st, enabled)
    IN  IF IsContinue(early) THEN AccessURLStatusFinal(st, results) ELSE early

evaluateDownloadURLStatus(st, enabled, results) ==
    LET early == DownloadURLStatusEarly(st, enabled)
    IN  IF IsContinue(early) THEN DownloadURLStatusFinal(st, results) ELSE early

(***************************************************************************)
(* evaluateMetric (metrics-evaluator.ts, lines 56-187).  v is the state of *)
(* the vocabulary sets the membership checks read, results the batch       *)
(* results a reachability metric received.                                 *)
(***************************************************************************)
ComplianceIds == {"dcat_ap_compliance", "dcat_ap_es_compliance", "nti_risp_compliance"}
StatusIds == {"dcat_access_url_status", "dcat_download_url_status"}
FormatVocabularyIds == {"dct_format_vocabulary", "dcat_media_type_vocabulary",
                        "dct_format_vocabulary_nti_risp", "dcat_media_type_vocabulary_nti_risp"}
DatasetIds == {"dcat_keyword", "dcat_theme", "dct_spatial", "dct_temporal", "dct_access_rights",
               "dct_access_rights_vocabulary", "dcat_contact_point", "dct_publisher",
               "dct_issued", "dct_modified"}
DistributionIds == {"dcat_access_url_status", "dcat_download_url", "dcat_download_url_status",
                    "dct_format", "dcat_media_type", "dct_format_nonproprietary",
                    "dct_format_machine_readable", "dct_license", "dct_license_nti_risp",
                    "dct_license_vocabulary", "dcat_byte_size", "dct_rights"}
                   \cup FormatVocabularyIds
KnownIds == DatasetIds \cup DistributionIds \cup ComplianceIds

\* the default case reporting the metric as passed
evaluateMetricDefaultPassing(id) ==
    Outcome(RInt(100), TRUE, formatMetricDetail("metricDetails.metricNotImplemented", [id |-> id]))

evaluateMetricDefault(id) ==
    Outcome(RInt(0), FALSE, formatMetricDetail("metricDetails.metricNotImplemented", [id |-> id]))

evaluateMetricSwitch(id, st, enabled, v, results) ==
    CASE id = "dcat_keyword" -> evaluateKeywordAvailability(st)
      [] id = "dcat_theme" -> evaluateThemeAvailability(st)
      [] id = "dct_spatial" -> evaluateSpatialAvailability(st)
      [] id = "dct_temporal" -> evaluateTemporalAvailability(st)
      [] id = "dcat_access_url_status" -> evaluateAccessURLStatus(st, enabled, results)
      [] id = "dcat_download_url" -> evaluateDownloadURLAvailability(st)
      [] id = "dcat_download_url_status" -> evaluateDownloadURLStatus(st, enabled, results)
      [] id = "dct_format" -> evaluateFormatAvailability(st)
      [] id = "dcat_media_type" -> evaluateMediaTypeAvailability(st)
      [] id \in FormatVocabularyIds -> evaluateFormatMediaTypeVocabulary(st)
      [] id = "dct_format_nonproprietary" -> evaluateNonProprietaryFormat(st, v)
      [] id = "dct_format_machine_readable" -> evaluateMachineReadableFormat(st, v)
      [] id \in ComplianceIds ->
            Outcome(RInt(100), TRUE,
                    formatMetricDetail("metricDetails.shaclValidationPassed", NoParams))
      [] id \in {"dct_license", "dct_license_nti_risp"} -> evaluateLicenseAvailability(st)
      [] id = "dct_license_vocabulary" -> evaluateLicenseVocabulary(st, v)
      [] id = "dct_access_rights" -> evaluateAccessRightsAvailability(st)
      [] id = "dct_access_rights_vocabulary" -> evaluateAccessRightsVocabulary(st, v)
      [] id = "dcat_contact_point" -> evaluateContactPointAvailability(st)
      [] id = "dct_publisher" -> evaluatePublisherAvailability(st)
      [] id = "dcat_byte_size" -> evaluateByteSizeAvailability(st)
      [] id = "dct_issued" -> evaluateIssuedDateAvailability(st)
      [] id = "dct_modified" -> evaluateModifiedDateAvailability(st)
      [] id = "dct_rights" -> evaluateRightsAvailability(st)
      [] OTHER -> evaluateMetricDefault(id)

\* metricName over the ids of the registry, computed once
RegistryNames == [id \in KnownIds |-> metricName(id)]

MetricResult(mc, o) ==
    [id |-> mc.id,
     name |-> IF mc.id \in KnownIds THEN RegistryNames[mc.id] ELSE metricName(mc.id), value |-> o.value, weight |-> mc.weight,
     passed |-> o.passed, details |-> o.details]

evaluateMetric(mc, st, enabled, v, results) ==
    MetricResult(mc, evaluateMetricSwitch(mc.id, st, enabled, v, results))

\* whether evaluating the metric reaches one of the four membership checks, and so
\* ensureVocabulariesLoaded: only for an entity whose property value is truthy
UsesVocabulary(id, st) ==
    LET dists == getSubjectsByType(st, Distribution)
        dsets == getSubjectsByType(st, Dataset)
    IN  CASE id \in {"dct_format_nonproprietary", "dct_format_machine_readable"} ->
                \E i \in DOMAIN dists : HasValue(st, dists[i], NAMESPACES.dct \o "format")
          [] id = "dct_license_vocabulary" ->
                \E i \in DOMAIN dists : HasValue(st, dists[i], NAMESPACES.dct \o "license")
          [] id = "dct_access_rights_vocabulary" ->
                \E i \in DOMAIN dsets : HasValue(st, dsets[i], NAMESPACES.dct \o "accessRights")
          [] OTHER -> FALSE

(***************************************************************************)
(* The stores explored: every distribution and dataset is one of a few     *)
(* shapes, and a store holds at most MaxEntities of each.                  *)
(***************************************************************************)
rdfTypeQuad(subject, typeUri) == quad(subject, NAMESPACES.rdf \o "type", namedNode(typeUri))

DistributionShape(k, i) ==
    LET iri == namedNode("http://data.example/dist/" \o ToString(i))
        bn == blankNode("b" \o ToString(i))
    IN  CASE k = 1 -> {rdfTypeQuad(iri, Distribution)}
          [] k = 2 -> {rdfTypeQuad(iri, Distribution),
                       quad(iri, NAMESPACES.dcat \o "accessURL", namedNode("http://a.example/x")),
                       quad(iri, NAMESPACES.dcat \o "downloadURL", namedNode("https://a.example/f.csv")),
                       quad(iri, NAMESPACES.dct \o "format", literal("CSV")),
                       quad(iri, NAMESPACES.dcat \o "mediaType", literal("text/csv")),
                       quad(iri, NAMESPACES.dct \o "license", namedNode("http://lic.example/cc-by")),
                       quad(iri, NAMESPACES.dcat \o "byteSize", literal("1024")),
                       quad(iri, NAMESPACES.dct \o "rights", literal("open"))}
          [] k = 3 -> {rdfTypeQuad(iri, Distribution),
                       quad(iri, NAMESPACES.dcat \o "accessURL", namedNode("http://b.example/y")),
                       quad(iri, NAMESPACES.dcat \o "downloadURL", namedNode("ftp://c.example/f")),
                       quad(iri, NAMESPACES.dct \o "format", literal("XLS")),
                       quad(iri, NAMESPACES.dcat \o "mediaType", literal("")),
                       quad(iri, NAMESPACES.dct \o "license", namedNode("http://lic.example/custom"))}
          [] k = 4 -> {rdfTypeQuad(bn, Distribution),
                       quad(bn, NAMESPACES.dcat \o "accessURL", namedNode("http://a.example/x")),
                       quad(bn, NAMESPACES.dcat \o "downloadURL", namedNode("https://a.example/f.csv")),
                       quad(bn, NAMESPACES.dct \o "format", literal("CSV")),
                       quad(bn, NAMESPACES.dct \o "license", namedNode("http://lic.example/cc-by"))}

DatasetShape(k, i) ==
    LET iri == namedNode("http://data.example/dataset/" \o ToString(i))
    IN  CASE k = 1 -> {rdfTypeQuad(iri, Dataset)}
          [] k = 2 -> {rdfTypeQuad(iri, Dataset),
                       quad(iri, NAMESPACES.dcat \o "keyword", literal("water")),
                       quad(iri, NAMESPACES.dcat \o "keyword", literal("rivers")),
                       quad(iri, NAMESPACES.dcat \o "theme", namedNode("http://theme.example/ENVI")),
                       quad(iri, NAMESPACES.dct \o "spatial", namedNode("http://geo.example/ES")),
                       quad(iri, NAMESPACES.dct \o "temporal", blankNode("t" \o ToString(i))),
                       quad(iri, NAMESPACES.dct \o "accessRights", namedNode("http://ar.example/PUBLIC")),
                       quad(iri, NAMESPACES.dcat \o "contactPoint", blankNode("c" \o ToString(i))),
                       quad(iri, NAMESPACES.dct \o "publisher", namedNode("http://org.example/p")),
                       quad(iri, NAMESPACES.dct \o "issued", literal("2024-01-01")),
                       quad(iri, NAMESPACES.dct \o "modified", literal("2024-02-01"))}
          [] k = 3 -> {rdfTypeQuad(iri, Dataset),
                       quad(iri, NAMESPACES.dcat \o "keyword", literal("")),
                       quad(iri, NAMESPACES.dct \o "accessRights", namedNode("http://ar.example/other")),
                       quad(iri, NAMESPACES.dct \o "issued", literal(""))}

DistributionShapes == 1..4
DatasetShapes == 1..3

\* the multisets of at most n shapes among K, as non-decreasing sequences
Multisets(n, K) ==
    {s \in UNION {[1..m -> K] : m \in 0..n} :
        \A i \in DOMAIN s : \A j \in DOMAIN s : i < j => s[i] <= s[j]}

StoreOf(dists, dsets) ==
    UNION {DistributionShape(dists[i], i) : i \in DOMAIN dists}
    \cup UNION {DatasetShape(dsets[i], i) : i \in DOMAIN dsets}

\* one kind of entity varies freely while the other is absent, or is one full dataset
Stores ==
    {StoreOf(d, <<>>) : d \in Multisets(MaxEntities, DistributionShapes)}
    \cup {StoreOf(d, <<2>>) : d \in Multisets(MaxEntities, DistributionShapes)}
    \cup {StoreOf(<<>>, e) : e \in Multisets(MaxEntities, DatasetShapes)}

\* a catalogue of n distributions, each with an access URL and a download URL of its own
LongStore(n) ==
    UNION {LET iri == namedNode("http://data.example/dist/" \o ToString(i))
           IN  {rdfTypeQuad(iri, Distribution),
                quad(iri, NAMESPACES.dcat \o "accessURL",
                     namedNode("http://h.example/page/" \o ToString(i))),
                quad(iri, NAMESPACES.dcat \o "downloadURL",
                     namedNode("https://h.example/file/" \o ToString(i)))} : i \in 1..n}

\* as many distributions as one chunk holds, one more, and one more than two chunks
LongStores == {LongStore(n) : n \in {chunkSize, chunkSize + 1, 2 * chunkSize + 1}}

(***************************************************************************)
(* Values the variables hold while the operation they belong to is not     *)
(* running.                                                                *)
(***************************************************************************)
NoMetricConfig == [id |-> "", weight |-> 0, property |-> ""]
NoMetricResult ==
    [id |-> "", name |-> "", value |-> RInt(0), weight |-> 0, passed |-> FALSE,
     details |-> formatMetricDetail("", NoParams)]
NoDimension == [name |-> "", score |-> RInt(0), weight |-> 0, metrics |-> <<>>]
NullVocabularies == [n \in VocabularyNames |-> NullSet]
NoConfig == [profiles |-> <<>>, profile_metrics |-> <<>>]

\* url-check-config.ts
DEFAULT_CONFIG == [enabled |-> TRUE, timeout |-> 3000]

MetricIdle ==
    /\ mpc = "idle"
    /\ metricConfig = NoMetricConfig
    /\ urlsToCheck = <<>>
    /\ chunkIdx = 0
    /\ allResults = <<>>
    /\ statusConfig = <<>>
    /\ batchRequests = <<>>
    /\ metricResult = NoMetricResult

DimensionIdle ==
    /\ dpc = "idle"
    /\ metricsConfig = <<>>
    /\ dimensionMaxScore = 0
    /\ metrics = <<>>
    /\ weightedSum = RInt(0)
    /\ totalWeight = 0
    /\ dimension = NoDimension

QualityIdle ==
    /\ qpc = "idle"
    /\ profile = ""
    /\ dimensionNames = <<>>
    /\ dimensions = <<>>
    /\ batchLog = <<>>
    /\ assessment = <<>>

BatchIdle ==
    /\ bpc = "idle"
    /\ batchUrls = <<>>
    /\ probes = <<>>
    /\ serverResponse = [status |-> 0, results |-> <<>>]
    /\ clientResults = <<>>

CacheIdle ==
    /\ urlCache = <<>>
    /\ otherEntries = [count |-> 0, timestamp |-> 0]
    /\ clock = 0
    /\ cachedCalls = <<>>
    /\ postRequests = <<>>

ProbeIdle ==
    /\ ppc = "idle"
    /\ probeRuns = <<>>
    /\ pendingChunks = 0

VocabLoadIdle ==
    /\ vocabCalls = <<>>
    /\ vocabFetches = [n \in VocabularyNames |-> 0]
    /\ vocabAssignments = 0

\* useState(null), useState(false), useState(''), useState(null)
HookIdle ==
    /\ validation = [result |-> <<>>, isLoading |-> FALSE, progress |-> "", error |-> <<>>]
    /\ validateCalls = <<>>

LaterIdle == ProbeIdle /\ VocabLoadIdle /\ HookIdle

cacheVars == <<urlCache, otherEntries, clock, cachedCalls, postRequests>>
probeVars == <<ppc, probeRuns, pendingChunks>>
vocabLoadVars == <<vocabCalls, vocabFetches, vocabAssignments>>
hookVars == <<validation, validateCalls>>
laterVars == <<probeVars, vocabLoadVars, hookVars>>
processVars ==
    <<store, urlCheckEnabled, urlCheckTimeout, vocab, cachedConfig, configFile, cacheVars, laterVars>>
metricVars == <<mpc, metricConfig, urlsToCheck, chunkIdx, allResults, statusConfig, batchRequests,
                metricResult>>
dimensionVars == <<dpc, metricsConfig, dimensionMaxScore, metrics, weightedSum, totalWeight,
                   dimension>>
qualityVars == <<qpc, profile, dimensionNames, dimensions, batchLog, assessment>>
batchVars == <<bpc, batchUrls, probes, serverResponse, clientResults>>

(***************************************************************************)
(* What checkUrlStatusBatch may hand back for a chunk, as far as the       *)
(* metric can tell: results for any of the chunk's URL occurrences, in any *)
(* order, each accessible or not.                                          *)
(***************************************************************************)
Injections(n, m) ==
    {f \in [1..n -> 1..m] : \A i \in 1..n : \A j \in 1..n : i # j => f[i] # f[j]}

\* for a chunk longer than MaxBatch: every URL accessible, every URL inaccessible (the
\* catch block), or no result at all
LongBatchReturns(chunk) ==
    {[i \in DOMAIN chunk |-> CheckUrlResponse(chunk[i], TRUE, <<200>>, <<>>)],
     [i \in DOMAIN chunk |-> CheckUrlResponse(chunk[i], FALSE, <<>>, <<"API error: 500">>)],
     <<>>}

ShortBatchReturns(chunk) ==
    UNION {
        {[i \in 1..n |->
            CheckUrlResponse(chunk[pos[i]], acc[i],
                             IF acc[i] THEN <<200>> ELSE <<404>>, <<>>)] :
            pos \in Injections(n, Len(chunk)), acc \in [1..n -> BOOLEAN]} :
        n \in 0..Len(chunk)}

BatchReturns(chunk) ==
    IF Len(chunk) > MaxBatch THEN LongBatchReturns(chunk) ELSE ShortBatchReturns(chunk)

(***************************************************************************)
(* Specification SpecMetric: evaluateMetric called again and again on one  *)
(* store, the reachability metrics one batch request at a time.            *)
(***************************************************************************)
MetricConfigs == {[id |-> id, weight |-> 1, property |-> "p"] : id \in KnownIds \cup {"dcat_unknown"}}

StatusUrls(id, st) ==
    IF id = "dcat_access_url_status" THEN accessUrlsToCheck(st) ELSE downloadUrlsToCheck(st)

StatusEarly(id, st, enabled) ==
    IF id = "dcat_access_url_status" THEN AccessURLStatusEarly(st, enabled)
    ELSE DownloadURLStatusEarly(st, enabled)

\* url-check-config.ts: setUrlCheckConfig({ enabled }).  The evaluation runs without a
\* break from reading the configuration to its first request, and from a response to
\* the next request or the return, so no other call falls in between.
setUrlCheckConfig(enabled) ==
    /\ mpc \notin {"request", "count"}
    /\ urlCheckEnabled' = enabled
    /\ urlCheckEnabled # enabled
    /\ UNCHANGED <<store, urlCheckTimeout, vocab, cachedConfig, configFile, cacheVars, laterVars, metricVars, dimensionVars,
                   qualityVars, batchVars>>

\* a metric that needs neither the URL checker nor the vocabularies
EvaluateSynchronous(mc) ==
    /\ mpc = "idle"
    /\ mc.id \notin StatusIds
    /\ ~UsesVocabulary(mc.id, store)
    /\ metricConfig' = mc
    /\ metricResult' = evaluateMetric(mc, store, urlCheckEnabled, vocab, <<>>)
    /\ mpc' = "done"
    /\ UNCHANGED <<processVars, urlsToCheck, chunkIdx, allResults, statusConfig,
                   batchRequests, dimensionVars, qualityVars, batchVars>>

\* a metric whose predicate awaits a membership check: the first one loads the sets
EvaluateWithVocabulary(mc, outcomes) ==
    /\ mpc = "idle"
    /\ UsesVocabulary(mc.id, store)
    /\ vocab' = ensureVocabulariesLoaded(vocab, outcomes)
    /\ metricConfig' = mc
    /\ metricResult' = evaluateMetric(mc, store, urlCheckEnabled, vocab', <<>>)
    /\ mpc' = "done"
    /\ UNCHANGED <<store, urlCheckEnabled, urlCheckTimeout, cachedConfig, configFile, cacheVars, laterVars, urlsToCheck, chunkIdx,
                   allResults, statusConfig, batchRequests, dimensionVars, qualityVars, batchVars>>

\* getUrlCheckConfig(): a copy of currentConfig
getUrlCheckConfig(enabled, timeout) == [enabled |-> enabled, timeout |-> timeout]

\* the evaluation gets as far as reading the configuration (lines 306, 393)
ReadsUrlCheckConfig(id, st) ==
    Len(getSubjectsByType(st, Distribution)) > 0 /\ Len(StatusUrls(id, st)) > 0

\* evaluate*URLStatus up to the batch loop
StatusStart(mc) ==
    /\ mpc = "idle"
    /\ mc.id \in StatusIds
    /\ metricConfig' = mc
    /\ LET early == StatusEarly(mc.id, store, urlCheckEnabled)
       IN  IF IsContinue(early)
           THEN /\ urlsToCheck' = StatusUrls(mc.id, store)
                /\ chunkIdx' = 1
                /\ mpc' = "request"
                /\ UNCHANGED metricResult
           ELSE /\ metricResult' = MetricResult(mc, early)
                /\ mpc' = "done"
                /\ UNCHANGED <<urlsToCheck, chunkIdx>>
    /\ statusConfig' =
          IF ReadsUrlCheckConfig(mc.id, store)
          THEN <<getUrlCheckConfig(urlCheckEnabled, urlCheckTimeout)>>
          ELSE <<>>
    /\ UNCHANGED <<processVars, allResults, batchRequests, dimensionVars,
                   qualityVars, batchVars>>

\* the call leaving out the URLs that urlCache holds
StatusRequestSkippingCached ==
    /\ mpc = "request"
    /\ mpc' = "awaiting"
    /\ LET NotCached(u) == u \notin DOMAIN urlCache
       IN  batchRequests' =
              Append(batchRequests,
                     [urls |-> SelectSeq(chunkArray(urlsToCheck, chunkSize)[chunkIdx], NotCached),
                      timeout |-> statusConfig[1].timeout, answered |-> FALSE])
    /\ UNCHANGED <<processVars, metricConfig, urlsToCheck, chunkIdx, allResults, statusConfig,
                   metricResult, dimensionVars, qualityVars, batchVars>>

\* checkUrlStatusBatch(chunk, config.timeout) is called for the next chunk
StatusRequest ==
    /\ mpc = "request"
    /\ mpc' = "awaiting"
    /\ batchRequests' =
          Append(batchRequests, [urls |-> chunkArray(urlsToCheck, chunkSize)[chunkIdx],
                                 timeout |-> statusConfig[1].timeout, answered |-> FALSE])
    /\ UNCHANGED <<processVars, metricConfig, urlsToCheck, chunkIdx, allResults, statusConfig,
                   metricResult, dimensionVars, qualityVars, batchVars>>

\* its promise resolves; allResults.push(...chunkResults)
StatusResponse ==
    /\ mpc = "awaiting"
    /\ \E chunkResults \in BatchReturns(chunkArray(urlsToCheck, chunkSize)[chunkIdx]) :
          allResults' = allResults \o chunkResults
    /\ IF chunkIdx < Len(chunkArray(urlsToCheck, chunkSize))
       THEN chunkIdx' = chunkIdx + 1 /\ mpc' = "request"
       ELSE chunkIdx' = chunkIdx /\ mpc' = "count"
    /\ batchRequests' = [batchRequests EXCEPT ![Len(batchRequests)].answered = TRUE]
    /\ UNCHANGED <<processVars, metricConfig, urlsToCheck, statusConfig,
                   metricResult, dimensionVars, qualityVars, batchVars>>

\* the result map, the count and the return
StatusFinish ==
    /\ mpc = "count"
    /\ metricResult' =
          MetricResult(metricConfig,
              IF metricConfig.id = "dcat_access_url_status"
              THEN AccessURLStatusFinal(store, allResults)
              ELSE DownloadURLStatusFinal(store, allResults))
    /\ mpc' = "done"
    /\ UNCHANGED <<processVars, metricConfig, urlsToCheck, chunkIdx, allResults, statusConfig,
                   batchRequests, dimensionVars, qualityVars, batchVars>>

\* the caller has the MetricResult; the evaluation's locals are gone
MetricReturned ==
    /\ mpc = "done"
    /\ mpc' = "idle"
    /\ metricConfig' = NoMetricConfig
    /\ urlsToCheck' = <<>>
    /\ chunkIdx' = 0
    /\ allResults' = <<>>
    /\ statusConfig' = <<>>
    /\ batchRequests' = <<>>
    /\ metricResult' = NoMetricResult
    /\ UNCHANGED <<processVars, dimensionVars, qualityVars,
                   batchVars>>

\* urlCache after a single check of the access URL of the stores' distributions,
\* made just now and answered with 200
FreshCache ==
    [u \in {"http://a.example/x"} |->
        [result |-> CheckUrlResponse(u, TRUE, <<200>>, <<>>), timestamp |-> 0]]

InitMetric ==
    /\ store \in Stores \cup LongStores
    /\ urlCheckEnabled = DEFAULT_CONFIG.enabled
    /\ urlCheckTimeout = DEFAULT_CONFIG.timeout
    /\ vocab = NullVocabularies
    /\ cachedConfig = NoConfig
    /\ configFile = NoConfig
    /\ MetricIdle
    /\ DimensionIdle
    /\ QualityIdle
    /\ BatchIdle
    /\ LaterIdle
    /\ urlCache \in {<<>>, FreshCache}
    /\ otherEntries = [count |-> 0, timestamp |-> 0]
    /\ clock = 0
    /\ cachedCalls = <<>>
    /\ postRequests = <<>>

NextMetric ==
    \/ \E enabled \in BOOLEAN : setUrlCheckConfig(enabled)
    \/ \E mc \in MetricConfigs : EvaluateSynchronous(mc)
    \/ \E mc \in MetricConfigs : \E outcomes \in VocabFetchOutcomes :
          EvaluateWithVocabulary(mc, outcomes)
    \/ \E mc \in MetricConfigs : StatusStart(mc)
    \/ StatusRequest
    \/ StatusResponse
    \/ StatusFinish
    \/ MetricReturned

SpecMetric == InitMetric /\ [][NextMetric]_vars

(***************************************************************************)
(* Claims about evaluateMetric, checked under SpecMetric.                  *)
(***************************************************************************)
NoEntityKeys == {"metricDetails.noDatasetsFound", "metricDetails.noDistributionsFound"}

NoDatasets(st) == Len(getSubjectsByType(st, Dataset)) = 0
NoDistributions(st) == Len(getSubjectsByType(st, Distribution)) = 0

\* C2: every value evaluateMetric returns lies in [0,100], whatever the metric id, the
\* store, the URL-check flag and the batch results received.
C2_ValueInRange ==
    mpc = "done" =>
        /\ RLe(RInt(0), metricResult.value)
        /\ RLe(metricResult.value, RInt(100))

\* C2 witness: a download-URL status evaluation that checked a URL held by two
\* distributions, got one result for it and returned 100.
C2_Witness ==
    /\ mpc = "done"
    /\ metricResult.id = "dcat_download_url_status"
    /\ Len(urlsToCheck) = 2
    /\ urlsToCheck[1] = urlsToCheck[2]
    /\ Len(allResults) = 1
    /\ metricResult.value = RInt(100)

\* C6 as amended: a dataset-level metric on a store without datasets, and a
\* distribution-level metric on a store without distributions, returns value 0,
\* passed = false and a "no datasets/distributions found" detail (and no NaN).
C6_NoEntitiesZero ==
    (/\ mpc = "done"
     /\ \/ (metricResult.id \in DatasetIds /\ NoDatasets(store))
        \/ (metricResult.id \in DistributionIds /\ NoDistributions(store)))
    => /\ metricResult.value = RInt(0)
       /\ metricResult.passed = FALSE
       /\ metricResult.details.key \in NoEntityKeys

\* C6 witness: the license metric evaluated on a store that has datasets only.
C6_Witness ==
    /\ mpc = "done"
    /\ metricResult.id = "dct_license"
    /\ NoDistributions(store)
    /\ ~NoDatasets(store)
    /\ metricResult.details.key = "metricDetails.noDistributionsFound"

\* C6 as stated: for every metric definition, no eligible entities (for a metric
\* without an entity type: an empty graph) gives value 0, passed = false and a
\* "no entities found" detail.
C6_AsStated ==
    (/\ mpc = "done"
     /\ \/ (metricResult.id \in DatasetIds /\ NoDatasets(store))
        \/ (metricResult.id \in DistributionIds /\ NoDistributions(store))
        \/ (metricResult.id \notin DatasetIds \cup DistributionIds /\ store = {}))
    => /\ metricResult.value = RInt(0)
       /\ metricResult.passed = FALSE
       /\ metricResult.details.key \in NoEntityKeys

\* at least one distribution has a non-empty dcat:downloadURL
SomeDownloadURL(st) ==
    \E i \in DOMAIN getSubjectsByType(st, Distribution) :
        HasValue(st, getSubjectsByType(st, Distribution)[i], NAMESPACES.dcat \o "downloadURL")

\* C14: with URL checking disabled, on a store in which a distribution has a
\* non-empty download URL, evaluating dcat_download_url_status returns the value that
\* dcat_download_url gives for the same store.
C14_DisabledStatusEqualsAvailability ==
    [][\A mc \in MetricConfigs :
          (/\ StatusStart(mc)
           /\ mc.id = "dcat_download_url_status"
           /\ ~urlCheckEnabled
           /\ SomeDownloadURL(store))
          => (/\ mpc' = "done"
              /\ metricResult'.value = evaluateDownloadURLAvailability(store).value)]_vars

\* the subjects of a type and those among them with a value for a property, read off
\* the quads themselves
TypedSubjects(st, typeUri) ==
    {q.subject : q \in {r \in st : r.predicate = NAMESPACES.rdf \o "type"
                                   /\ r.object = namedNode(typeUri)}}

SubjectsWithValue(st, typeUri, predicateUri) ==
    {x \in TypedSubjects(st, typeUri) :
        \E q \in st : q.subject = x /\ q.predicate = predicateUri}

ExistenceMetricType(id) == IF id = "dcat_keyword" THEN Dataset ELSE Distribution
ExistenceMetricProperty(id) ==
    IF id = "dcat_keyword" THEN NAMESPACES.dcat \o "keyword" ELSE NAMESPACES.dct \o "license"

\* C16: the keyword and license existence metrics, on a store with d >= 1 entities of
\* the metric's type of which n have a value for its property, return value 100*n/d,
\* passed = (n > 0) and a detail with count n and total d.
C16_ProportionalExistence ==
    (mpc = "done" /\ metricResult.id \in {"dcat_keyword", "dct_license"}) =>
        LET d == Cardinality(TypedSubjects(store, ExistenceMetricType(metricResult.id)))
            n == Cardinality(SubjectsWithValue(store, ExistenceMetricType(metricResult.id),
                                               ExistenceMetricProperty(metricResult.id)))
        IN  d >= 1 =>
              /\ metricResult.value = Percentage(n, d)
              /\ metricResult.passed = (n > 0)
              /\ metricResult.details.params = CountParams(n, d)

\* C17: a reachability metric that went through the URL checker returns 100 times
\* the number of its URLs reported accessible, divided by the number of distributions
\* for dcat_access_url_status and by the number of distributions that have a download
\* URL for dcat_download_url_status.
C17_StatusDenominators ==
    (mpc = "done" /\ chunkIdx > 0) =>
        LET count == accessibleCount(urlsToCheck, allResults)
            total == Cardinality(TypedSubjects(store, Distribution))
            withDownloadURL ==
                Cardinality(SubjectsWithValue(store, Distribution,
                                              NAMESPACES.dcat \o "downloadURL"))
        IN  /\ metricResult.id = "dcat_access_url_status" =>
                  metricResult.value = Percentage(count, total)
            /\ metricResult.id = "dcat_download_url_status" =>
                  metricResult.value = Percentage(count, withDownloadURL)

\* C18: an evaluation of a reachability metric that read enabled = false from the
\* configuration, or that found no distributions or no http(s) URLs, has made no
\* checkUrlStatusBatch call; and an evaluation begun while URL checking is disabled is
\* over in the same step without a call.
C18_NoRequestWhenBypassed ==
    /\ [](/\ (statusConfig # <<>> /\ ~statusConfig[1].enabled) => batchRequests = <<>>
          /\ (mpc # "idle" /\ metricConfig.id \in StatusIds
                /\ (NoDistributions(store) \/ StatusUrls(metricConfig.id, store) = <<>>))
             => batchRequests = <<>>)
    /\ [][(mpc = "idle" /\ ~urlCheckEnabled) =>
              (mpc' \in {"idle", "done"} /\ batchRequests' = <<>>)]_vars

\* C18 witness: with checking disabled, an access-URL status evaluation on a store
\* with an http access URL has returned the unchecked count without any call
C18_Witness ==
    /\ mpc = "done"
    /\ metricConfig.id = "dcat_access_url_status"
    /\ statusConfig # <<>>
    /\ ~statusConfig[1].enabled
    /\ StatusUrls(metricConfig.id, store) # <<>>
    /\ batchRequests = <<>>
    /\ metricResult.details.key = "metricDetails.distributionsHaveAccessURLNotChecked"

\* C19: no step of a metric evaluation changes urlCache or sends a single-URL
\* request, and every checkUrlStatusBatch call carries its whole chunk of the collected
\* URLs, whether or not urlCache holds a fresh entry for some of them.
C19_BatchPathIgnoresCache ==
    /\ [][urlCache' = urlCache /\ otherEntries' = otherEntries
             /\ postRequests' = postRequests]_vars
    /\ [](\A k \in DOMAIN batchRequests :
             batchRequests[k].urls = chunkArray(urlsToCheck, chunkSize)[k])

\* C19 witness: urlCache holds a fresh accessible entry for a URL; the evaluation has
\* sent that URL all the same, was told it is not accessible, and returned 0
C19_Witness ==
    /\ mpc = "done"
    /\ "http://a.example/x" \in DOMAIN urlCache
    /\ urlCache["http://a.example/x"].result.accessible
    /\ clock - urlCache["http://a.example/x"].timestamp < 5 * 60 * 1000
    /\ Len(batchRequests) = 1
    /\ batchRequests[1].answered
    /\ batchRequests[1].urls = <<"http://a.example/x">>
    /\ Len(allResults) = 1
    /\ allResults[1].url = "http://a.example/x"
    /\ ~allResults[1].accessible
    /\ metricResult.value = RInt(0)

\* the set a vocabulary metric tests membership in
VocabularyOf(id) ==
    CASE id = "dct_format_nonproprietary" -> "NON_PROPRIETARY_FORMATS"
      [] id = "dct_format_machine_readable" -> "MACHINE_READABLE_FORMATS"
      [] id = "dct_license_vocabulary" -> "KNOWN_LICENSES"
      [] id = "dct_access_rights_vocabulary" -> "KNOWN_ACCESS_RIGHTS"

AllVocabulariesLoaded == [n \in VocabularyNames |-> LoadedSet(VocabularyFiles[n])]

\* C24: when a metric that tests vocabulary membership has returned, the load has
\* assigned all six sets, each one its file's content or, where the fetch failed, the
\* empty set; if the metric's own set is empty the metric returned value 0 and passed
\* false, and if it is not the metric returned what it returns when every file loads,
\* whichever other file failed.
C24_LoadErrorIsEmptySet ==
    (mpc = "done" /\ UsesVocabulary(metricConfig.id, store)) =>
        /\ \A n \in VocabularyNames :
              ~vocab[n].isNull /\ vocab[n].uris \in {{}, VocabularyFiles[n]}
        /\ IF vocab[VocabularyOf(metricConfig.id)].uris = {}
           THEN metricResult.value = RInt(0) /\ ~metricResult.passed
           ELSE metricResult = evaluateMetric(metricConfig, store, urlCheckEnabled,
                                              AllVocabulariesLoaded, <<>>)

\* C24 witness: the licenses file failed to load and the others loaded; the license
\* vocabulary metric, on a store whose distributions carry a license the file lists,
\* returned 0, not passed
C24_Witness ==
    /\ mpc = "done"
    /\ metricConfig.id = "dct_license_vocabulary"
    /\ UsesVocabulary(metricConfig.id, store)
    /\ \E q \in store : q.object = namedNode("http://lic.example/cc-by")
    /\ vocab.KNOWN_LICENSES = LoadedSet({})
    /\ \A n \in VocabularyNames \ {"KNOWN_LICENSES"} :
          vocab[n] = LoadedSet(VocabularyFiles[n])
    /\ metricResult.value = RInt(0)
    /\ ~metricResult.passed

\* C25: a status metric that has gathered the results of one batch response returns the
\* value and the passed flag it would return for the same results in any other order.
C25_OrderIndependent ==
    (/\ mpc = "done"
     /\ metricConfig.id \in StatusIds
     /\ Len(batchRequests) = 1
     /\ Len(allResults) >= 2
     /\ Len(allResults) <= MaxBatch) =>
        \A p \in Permutations(DOMAIN allResults) :
            LET reordered == [i \in DOMAIN allResults |-> allResults[p[i]]]
                final == IF metricConfig.id = "dcat_access_url_status"
                         THEN AccessURLStatusFinal(store, reordered)
                         ELSE DownloadURLStatusFinal(store, reordered)
            IN  /\ final.value = metricResult.value
                /\ final.passed = metricResult.passed

\* C26: the keyword and license existence metrics count in their numerator every
\* subject of the metric's type that has at least one value for its property, the
\* subjects identified by a blank node as well as those named by an IRI.
C26_BlankNodeSubjectsCounted ==
    (/\ mpc = "done"
     /\ metricResult.id \in {"dcat_keyword", "dct_license"}
     /\ TypedSubjects(store, ExistenceMetricType(metricResult.id)) # {}) =>
        \A kind \in {"NamedNode", "BlankNode"} :
            metricResult.details.params.count >=
                Cardinality({x \in SubjectsWithValue(store,
                                       ExistenceMetricType(metricResult.id),
                                       ExistenceMetricProperty(metricResult.id)) :
                                x.termType = kind})

(***************************************************************************)
(* The server probe and the batch endpoint (check-url-status/route.ts).    *)
(***************************************************************************)
maxBatchSize == 50
headTimeoutCap == 2000

\* what the remote server does with one request: it answers with a status, the
\* transport fails with an error code, or nothing comes back before the timer fires
Answer(status) == [kind |-> "response", status |-> status, code |-> ""]
Failure(code) == [kind |-> "error", status |-> 0, code |-> code]
Hang == [kind |-> "hang", status |-> 0, code |-> ""]

HeadOutcomes == {Answer(200), Answer(404), Answer(405), Answer(501), Failure("ENOTFOUND"), Hang}
GetOutcomes ==
    {Answer(200), Answer(404), Failure("ENOTFOUND"), Failure("ECONNREFUSED"),
     Failure("CERT_HAS_EXPIRED"), Hang}

\* a string that new URL() rejects: fetch throws a TypeError whose cause carries the
\* code ERR_INVALID_URL, for the HEAD and for the GET alike
MalformedURL == "not a url"
HeadOutcomesOf(url) == IF url = MalformedURL THEN {Failure("ERR_INVALID_URL")} ELSE HeadOutcomes
GetOutcomesOf(url) == IF url = MalformedURL THEN {Failure("ERR_INVALID_URL")} ELSE GetOutcomes

\* the catch block's error message (lines 202-224)
errorMessage(code) ==
    CASE code = "AbortError" -> "Request timeout"
      [] code = "ENOTFOUND" -> "DNS lookup failed"
      [] code = "ECONNREFUSED" -> "Connection refused"
      [] code = "ECONNRESET" -> "Connection reset"
      [] code = "ETIMEDOUT" -> "Connection timeout"
      [] code \in {"UNABLE_TO_VERIFY_LEAF_SIGNATURE", "SELF_SIGNED_CERT_IN_CHAIN",
                   "CERT_HAS_EXPIRED"} -> "SSL certificate error (but server may be accessible)"
      [] code = "ERR_INVALID_URL" -> "Failed to parse URL"
      [] OTHER -> "fetch failed"

\* the result built from a response (lines 180-195): accessible = response.ok
responseResult(url, status) ==
    CheckUrlResponse(url, status >= 200 /\ status <= 299, <<status>>, <<>>)

\* the catch block reporting an SSL failure as accessible
errorResultSslAccessible(url, code) ==
    CheckUrlResponse(url, errorMessage(code) = errorMessage("CERT_HAS_EXPIRED"), <<>>,
                     <<errorMessage(code)>>)

\* the result built by the catch block (lines 226-230)
errorResult(url, code) == CheckUrlResponse(url, FALSE, <<>>, <<errorMessage(code)>>)

\* checkUrlStatus(url, timeout) given what the remote server does with the HEAD and
\* with the GET.  The HEAD is aborted after min(timeout, headTimeoutCap); the GET
\* carries the signal of the controller armed with timeout when the probe started.
checkUrlStatus(url, timeout, head, get) ==
    LET headMs == IF timeout < headTimeoutCap THEN timeout ELSE headTimeoutCap
        fallback == head.kind # "response" \/ head.status \in {405, 501}
        \* the controller has fired before the GET is issued
        expired == head.kind = "hang" /\ headMs >= timeout
    IN  IF ~fallback THEN responseResult(url, head.status)
        ELSE IF expired \/ get.kind = "hang" THEN errorResult(url, "AbortError")
        ELSE IF get.kind = "response" THEN responseResult(url, get.status)
        ELSE errorResult(url, get.code)

\* the last request of the probe ended without a response: the GET fallback was
\* needed (HEAD failed, hung or answered 405/501) and failed or hung as well
TransportFailure(head, get) ==
    /\ head.kind # "response" \/ head.status \in {405, 501}
    /\ get.kind # "response"

\* one promise of the Promise.all: failed records that the probe's last request ended
\* in a transport failure
PendingProbe ==
    [done |-> FALSE, failed |-> FALSE, result |-> CheckUrlResponse("", FALSE, <<>>, <<>>)]
SettledProbe(result, failed) == [done |-> TRUE, failed |-> failed, result |-> result]

(***************************************************************************)
(* The client (url-status-client.ts): checkUrlStatusBatch.                 *)
(***************************************************************************)
\* the catch block returning no result at all
batchFallbackEmpty(urls, message) == <<>>

\* the catch block: every URL reported inaccessible
batchFallback(urls, message) ==
    [i \in DOMAIN urls |-> CheckUrlResponse(urls[i], FALSE, <<>>, <<message>>)]

BatchURLs == {"http://a.example/x", "http://b.example/y"}
Timeouts == {headTimeoutCap, DEFAULT_CONFIG.timeout}

\* the URL lists explored: every list of at most MaxBatch URLs, and one list that is
\* longer than the endpoint accepts
UrlLists ==
    UNION {[1..n -> BatchURLs \cup {MalformedURL}] : n \in 0..MaxBatch}
    \cup {[i \in 1..(maxBatchSize + 1) |-> "http://a.example/x"]}

\* checkUrlStatusBatch(urls, timeout) up to its fetch
BatchCall(urls) ==
    /\ bpc = "idle"
    /\ batchUrls' = urls
    /\ IF Len(urls) = 0
       THEN clientResults' = <<>> /\ bpc' = "done"
       ELSE clientResults' = clientResults /\ bpc' = "sent"
    /\ UNCHANGED <<processVars, probes, serverResponse, metricVars, dimensionVars, qualityVars>>

\* PUT: validation, then one checkUrlStatus per url under Promise.all
PUT ==
    /\ bpc = "sent"
    /\ IF Len(batchUrls) = 0
       THEN /\ serverResponse' = [status |-> 200, results |-> <<>>]
            /\ bpc' = "responded"
            /\ UNCHANGED probes
       ELSE IF Len(batchUrls) > maxBatchSize
       THEN /\ serverResponse' = [status |-> 400, results |-> <<>>]
            /\ bpc' = "responded"
            /\ UNCHANGED probes
       ELSE /\ probes' = [i \in DOMAIN batchUrls |-> PendingProbe]
            /\ bpc' = "probing"
            /\ UNCHANGED serverResponse
    /\ UNCHANGED <<processVars, batchUrls, clientResults, metricVars, dimensionVars, qualityVars>>

\* one of the concurrent probes settles
ProbeSettles(i, head, get) ==
    /\ bpc = "probing"
    /\ i \in DOMAIN probes
    /\ ~probes[i].done
    /\ probes' = [probes EXCEPT
                    ![i] = SettledProbe(checkUrlStatus(batchUrls[i], urlCheckTimeout, head, get),
                                        TransportFailure(head, get))]
    /\ UNCHANGED <<processVars, bpc, batchUrls, serverResponse, clientResults, metricVars,
                   dimensionVars, qualityVars>>

\* Promise.all resolves with the results in input order; the handler answers 200
PUTResponds ==
    /\ bpc = "probing"
    /\ \A i \in DOMAIN probes : probes[i].done
    /\ serverResponse' = [status |-> 200, results |-> [i \in DOMAIN probes |-> probes[i].result]]
    /\ bpc' = "responded"
    /\ UNCHANGED <<processVars, batchUrls, probes, clientResults, metricVars, dimensionVars,
                   qualityVars>>

\* the client's fetch resolves: data.results, or the catch block for a non-OK answer
BatchResponse ==
    /\ bpc = "responded"
    /\ clientResults' =
          IF serverResponse.status = 200 THEN serverResponse.results
          ELSE batchFallback(batchUrls, "API error")
    /\ bpc' = "done"
    /\ UNCHANGED <<processVars, batchUrls, probes, serverResponse, metricVars, dimensionVars,
                   qualityVars>>

\* the client's fetch rejects (the API cannot be reached, or the connection drops)
BatchFetchFails ==
    /\ bpc \in {"sent", "probing", "responded"}
    /\ clientResults' = batchFallback(batchUrls, "fetch failed")
    /\ bpc' = "done"
    /\ UNCHANGED <<processVars, batchUrls, probes, serverResponse, metricVars, dimensionVars,
                   qualityVars>>

InitBatch ==
    /\ store = {}
    /\ urlCheckEnabled = DEFAULT_CONFIG.enabled
    /\ urlCheckTimeout \in Timeouts
    /\ vocab = NullVocabularies
    /\ cachedConfig = NoConfig
    /\ configFile = NoConfig
    /\ MetricIdle
    /\ DimensionIdle
    /\ QualityIdle
    /\ BatchIdle
    /\ CacheIdle
    /\ LaterIdle

NextBatch ==
    \/ \E urls \in UrlLists : BatchCall(urls)
    \/ PUT
    \/ \E i \in DOMAIN probes :
          \E head \in HeadOutcomesOf(batchUrls[i]) : \E get \in GetOutcomesOf(batchUrls[i]) :
             ProbeSettles(i, head, get)
    \/ PUTResponds
    \/ BatchResponse
    \/ BatchFetchFails

SpecBatch == InitBatch /\ [][NextBatch]_vars

\* the number of occurrences of url among the url fields of results
Occurrences(results, url) == Cardinality({i \in DOMAIN results : results[i].url = url})
OccurrencesIn(urls, url) == Cardinality({i \in DOMAIN urls : urls[i] = url})

OneResultPerUrl(results, urls) ==
    /\ Len(results) = Len(urls)
    /\ \A u \in Range(urls) \cup {results[i].url : i \in DOMAIN results} :
          Occurrences(results, u) = OccurrencesIn(urls, u)

\* C1: the PUT handler answers a list of 1..maxBatchSize URLs with 200 and exactly one
\* result per URL occurrence, and checkUrlStatusBatch returns exactly one result per
\* URL occurrence whatever happens to the API call.
C1_OneResultPerUrl ==
    /\ (bpc = "responded" /\ Len(batchUrls) \in 1..maxBatchSize) =>
          /\ serverResponse.status = 200
          /\ OneResultPerUrl(serverResponse.results, batchUrls)
    /\ bpc = "done" => OneResultPerUrl(clientResults, batchUrls)

\* C1 witness: a list with a duplicated URL went through the endpoint, its two probes
\* ended differently, and the client returned the three results.
C1_Witness ==
    /\ bpc = "done"
    /\ Len(batchUrls) = 3
    /\ batchUrls[1] = batchUrls[3]
    /\ serverResponse.status = 200
    /\ clientResults = serverResponse.results
    /\ clientResults[1].accessible
    /\ ~clientResults[3].accessible

IsFailureResult(result) ==
    /\ ~result.accessible
    /\ Len(result.error) = 1 /\ result.error[1] # ""
    /\ result.statusCode = <<>>

\* C12: a probe of the batch that ended in a transport failure (DNS, connection
\* refused, SSL, timeout, malformed URL) has given its URL a result with accessible
\* false, a non-empty error and no status code; a settled probe's result is never
\* changed by what happens to the other probes; and the handler answers 200 with
\* exactly the probes' results.
C12_ProbeFailureIsLocal ==
    /\ [](/\ \A i \in DOMAIN probes :
               (probes[i].done /\ probes[i].failed) =>
                   /\ IsFailureResult(probes[i].result)
                   /\ probes[i].result.url = batchUrls[i]
          /\ (bpc = "responded" /\ probes # <<>>) =>
               /\ serverResponse.status = 200
               /\ serverResponse.results = [i \in DOMAIN probes |-> probes[i].result])
    /\ [][\A i \in DOMAIN probes : probes[i].done => probes'[i] = probes[i]]_vars

\* C12 witness: a batch of three answered with 200 in which the malformed URL and a
\* URL whose name does not resolve are reported as failures next to an accessible one
C12_Witness ==
    /\ bpc = "responded"
    /\ serverResponse.status = 200
    /\ Len(batchUrls) = 3
    /\ batchUrls[1] = MalformedURL
    /\ serverResponse.results[1].error = <<"Failed to parse URL">>
    /\ serverResponse.results[2].error = <<"DNS lookup failed">>
    /\ IsFailureResult(serverResponse.results[1])
    /\ IsFailureResult(serverResponse.results[2])
    /\ serverResponse.results[3].accessible
    /\ serverResponse.results[3].statusCode = <<200>>

\* C13: whenever a probe settles whose HEAD hung until its own timer aborted it and
\* whose server answers the GET, the result carries the GET's status code, for every
\* timeout.
C13_HeadTimeoutFallsBack ==
    [][\A i \in DOMAIN probes : \A get \in {Answer(200), Answer(404)} :
          ProbeSettles(i, Hang, get) =>
              probes'[i].result.statusCode = <<get.status>>]_vars

\* the urls of the first n requests, one after the other
RECURSIVE RequestedUrls(_, _)
RequestedUrls(requests, n) ==
    IF n = 0 THEN <<>> ELSE RequestedUrls(requests, n - 1) \o requests[n].urls

\* C20: the checkUrlStatusBatch calls of a metric evaluation carry between 1 and 50
\* URLs each, never more than the endpoint accepts; taken together they are the
\* collected URLs from the first on, in order and without repetition, and all of them
\* once the loop is over; only the last call can be unanswered; and a call is made
\* only when every earlier one has been answered.
C20_ChunkedSequentialDispatch ==
    /\ [](/\ \A k \in DOMAIN batchRequests :
                /\ Len(batchRequests[k].urls) >= 1
                /\ Len(batchRequests[k].urls) <= chunkSize
                /\ Len(batchRequests[k].urls) <= maxBatchSize
                /\ (k < Len(batchRequests) => batchRequests[k].answered)
          /\ LET sent == RequestedUrls(batchRequests, Len(batchRequests))
             IN  /\ Len(sent) <= Len(urlsToCheck)
                 /\ sent = SubSeq(urlsToCheck, 1, Len(sent))
                 /\ (mpc \in {"count", "done"} /\ chunkIdx > 0) => sent = urlsToCheck)
    /\ [][Len(batchRequests') > Len(batchRequests) =>
             \A k \in DOMAIN batchRequests : batchRequests[k].answered]_vars

\* C20 witness: 101 collected URLs have gone out as calls of 50, 50 and 1, and the
\* third call is being awaited
C20_Witness ==
    /\ mpc = "awaiting"
    /\ Len(urlsToCheck) = 2 * chunkSize + 1
    /\ Len(batchRequests) = 3
    /\ Len(batchRequests[1].urls) = chunkSize
    /\ Len(batchRequests[2].urls) = chunkSize
    /\ Len(batchRequests[3].urls) = 1
    /\ batchRequests[2].answered
    /\ ~batchRequests[3].answered
    /\ batchRequests[3].urls[1] = urlsToCheck[2 * chunkSize + 1]

(***************************************************************************)
(* Configuration access (config.ts, first half).  A JSON object is a       *)
(* function; a missing key reads as undefined.                             *)
(***************************************************************************)
\* loadConfig(): the cached configuration, else the fetched file, which is then
\* cached; ok is false when the fetch fails and loadConfig throws
loadConfig(cached, file, fetchOk) ==
    IF cached # NoConfig THEN [ok |-> TRUE, config |-> cached]
    ELSE IF fetchOk THEN [ok |-> TRUE, config |-> file]
    ELSE [ok |-> FALSE, config |-> NoConfig]

HasKey(obj, key) == key \in DOMAIN obj

\* getProfileConfig(profileId): the default version's entry, or null
ProfileFound(config, profileId) ==
    /\ HasKey(config.profiles, profileId)
    /\ HasKey(config.profiles[profileId].versions, config.profiles[profileId].defaultVersion)

getProfileConfig(config, profileId) ==
    config.profiles[profileId].versions[config.profiles[profileId].defaultVersion]

\* getProfileMetrics(profileId, dimension): profileMetrics[dimension] || []
getProfileMetrics(config, profileId, dimensionName) ==
    IF ~HasKey(config.profile_metrics, profileId) THEN <<>>
    ELSE IF ~HasKey(config.profile_metrics[profileId], dimensionName) THEN <<>>
    ELSE config.profile_metrics[profileId][dimensionName]

\* getProfileDimensions(profileId) is null exactly when this is false
HasProfileDimensions(config, profileId) == ProfileFound(config, profileId)

getProfileDimensions(config, profileId) == getProfileConfig(config, profileId).dimensions

\* getMaxScore(profileId): profileConfig?.maxScore || 0
getMaxScore(config, profileId) ==
    IF ProfileFound(config, profileId) THEN getProfileConfig(config, profileId).maxScore ELSE 0

(***************************************************************************)
(* calculateDimension (quality.ts, lines 881-916 of metrics-evaluator.ts). *)
(***************************************************************************)
\* dimensionsConfig?.[dimensionName]?.maxScore || 0
dimensionMaxScoreOf(config, profileId, dimensionName) ==
    IF ~HasProfileDimensions(config, profileId) THEN 0
    ELSE IF ~HasKey(getProfileDimensions(config, profileId), dimensionName) THEN 0
    ELSE getProfileDimensions(config, profileId)[dimensionName].maxScore

\* the loop body counting every metric once instead of by its weight
accumulateByCount(acc, mr, weight) ==
    [weightedSum |-> RAdd(acc.weightedSum, RMul(mr.value, RInt(weight))),
     totalWeight |-> acc.totalWeight + 1]

\* the loop body leaving out the metrics that are not implemented
accumulateImplemented(acc, mr, weight) ==
    IF mr.details.key = "metricDetails.metricNotImplemented" THEN acc
    ELSE [weightedSum |-> RAdd(acc.weightedSum, RMul(mr.value, RInt(weight))),
          totalWeight |-> acc.totalWeight + weight]

\* the loop body (lines 899-901): weightedSum += value * weight; totalWeight += weight
accumulate(acc, mr, weight) ==
    [weightedSum |-> RAdd(acc.weightedSum, RMul(mr.value, RInt(weight))),
     totalWeight |-> acc.totalWeight + weight]

\* the whole loop of lines 892-902 over a list of metric results
RECURSIVE aggregate(_, _, _)
aggregate(cfg, ms, n) ==
    IF n = 0 THEN [weightedSum |-> RInt(0), totalWeight |-> 0]
    ELSE accumulate(aggregate(cfg, ms, n - 1), ms[n], cfg[n].weight)

\* lines 905-908 without the totalWeight > 0 test
actualScoreUnguarded(ws, tw, maxScore) ==
    RMul(RDiv(RDiv(ws, RInt(tw)), RInt(100)), RInt(maxScore))

\* lines 905-908: the dimension percentage and the score in points
actualScore(ws, tw, maxScore) ==
    LET dimensionPercentage == IF tw > 0 THEN RDiv(ws, RInt(tw)) ELSE RInt(0)
    IN  RMul(RDiv(dimensionPercentage, RInt(100)), RInt(maxScore))

\* dimensionName.charAt(0).toUpperCase() + dimensionName.slice(1)
capitalize(name) ==
    IF Len(name) = 0 THEN ""
    ELSE toUpperCase(SubSeq(name, 1, 1)) \o SubSeq(name, 2, Len(name))

QualityDimension(name, score, maxScore, ms) ==
    [name |-> capitalize(name), score |-> score, weight |-> maxScore, metrics |-> ms]

\* what the batch requests of one metric evaluation may hand back in all: nothing
\* for a metric that makes no request, else one return per chunk
RECURSIVE ChunkReturns(_)
ChunkReturns(chunks) ==
    IF Len(chunks) = 0 THEN {<<>>}
    ELSE {first \o rest : first \in BatchReturns(Head(chunks)), rest \in ChunkReturns(Tail(chunks))}

MetricBatchReturns(id, st, enabled) ==
    IF id \in StatusIds /\ IsContinue(StatusEarly(id, st, enabled))
    THEN ChunkReturns(chunkArray(StatusUrls(id, st), chunkSize))
    ELSE {<<>>}

\* the batch returns of a whole dimension: one per configured metric
RECURSIVE DimensionBatchReturns(_, _, _, _)
DimensionBatchReturns(cfg, st, enabled, n) ==
    IF n = 0 THEN {<<>>}
    ELSE {Append(b, r) : b \in DimensionBatchReturns(cfg, st, enabled, n - 1),
                         r \in MetricBatchReturns(cfg[n].id, st, enabled)}

\* whether the dimension's loop reaches ensureVocabulariesLoaded
DimensionUsesVocabulary(cfg, st) == \E i \in DOMAIN cfg : UsesVocabulary(cfg[i].id, st)

\* calculateDimension as one step: v is the vocabulary state its membership checks
\* see, batches[i] what the URL checker returned to the i-th metric
calculateDimension(config, profileId, dimensionName, st, enabled, v, batches) ==
    LET cfg == getProfileMetrics(config, profileId, dimensionName)
        maxScore == dimensionMaxScoreOf(config, profileId, dimensionName)
        ms == [i \in DOMAIN cfg |-> evaluateMetric(cfg[i], st, enabled, v, batches[i])]
        acc == aggregate(cfg, ms, Len(cfg))
    IN  QualityDimension(dimensionName, actualScore(acc.weightedSum, acc.totalWeight, maxScore),
                         maxScore, ms)

(***************************************************************************)
(* Specification SpecDimension: one calculateDimension call, metric by     *)
(* metric, for a configuration holding one profile with one dimension.     *)
(***************************************************************************)
DimensionMetricIds == {"dcat_keyword", "dcat_download_url_status", "dcat_ap_compliance",
                       "dcat_unknown"}
DimensionMaxScores == {0, 30}

MetricsConfigs ==
    UNION {[1..n -> {[id |-> id, weight |-> w, property |-> "p"] :
                        id \in DimensionMetricIds, w \in 0..MaxWeight}] : n \in 0..MaxMetrics}

OneDimensionConfig(maxScore, ms) ==
    [profiles |->
        [dcat_ap |->
            [defaultVersion |-> "3.0.0",
             versions |-> [v \in {"3.0.0"} |->
                [name |-> "DCAT-AP", maxScore |-> maxScore,
                 dimensions |-> [findability |-> [maxScore |-> maxScore]]]]]],
     profile_metrics |-> [dcat_ap |-> [findability |-> ms]]]

DimensionStores == {{}, StoreOf(<<2>>, <<>>), StoreOf(<<2, 3>>, <<1, 2>>)}

\* calculateDimension up to its loop
DimensionStart(profileId, dimensionName) ==
    /\ dpc = "idle"
    /\ metricsConfig' = getProfileMetrics(cachedConfig, profileId, dimensionName)
    /\ dimensionMaxScore' = dimensionMaxScoreOf(cachedConfig, profileId, dimensionName)
    /\ metrics' = <<>>
    /\ weightedSum' = RInt(0)
    /\ totalWeight' = 0
    /\ dpc' = "loop"
    /\ UNCHANGED <<processVars, dimension, metricVars, qualityVars, batchVars>>

\* one iteration: await evaluateMetric, push, accumulate
DimensionMetric ==
    /\ dpc = "loop"
    /\ Len(metrics) < Len(metricsConfig)
    /\ LET mc == metricsConfig[Len(metrics) + 1]
       IN  /\ IF UsesVocabulary(mc.id, store)
              THEN \E outcomes \in VocabFetchOutcomes :
                      vocab' = ensureVocabulariesLoaded(vocab, outcomes)
              ELSE vocab' = vocab
           /\ \E results \in MetricBatchReturns(mc.id, store, urlCheckEnabled) :
                LET mr == evaluateMetric(mc, store, urlCheckEnabled, vocab', results)
                    acc == accumulate([weightedSum |-> weightedSum, totalWeight |-> totalWeight],
                                      mr, mc.weight)
                IN  /\ metrics' = Append(metrics, mr)
                    /\ weightedSum' = acc.weightedSum
                    /\ totalWeight' = acc.totalWeight
    /\ UNCHANGED <<store, urlCheckEnabled, urlCheckTimeout, cachedConfig, configFile, cacheVars, laterVars, dpc, metricsConfig,
                   dimensionMaxScore, dimension, metricVars, qualityVars, batchVars>>

\* after the loop: the score and the returned QualityDimension
DimensionFinish(dimensionName) ==
    /\ dpc = "loop"
    /\ Len(metrics) = Len(metricsConfig)
    /\ dimension' = QualityDimension(dimensionName,
                        actualScore(weightedSum, totalWeight, dimensionMaxScore),
                        dimensionMaxScore, metrics)
    /\ dpc' = "done"
    /\ UNCHANGED <<processVars, metricsConfig, dimensionMaxScore, metrics, weightedSum,
                   totalWeight, metricVars, qualityVars, batchVars>>

InitDimension ==
    /\ store \in DimensionStores
    /\ urlCheckEnabled \in BOOLEAN
    /\ urlCheckTimeout = DEFAULT_CONFIG.timeout
    /\ vocab = NullVocabularies
    /\ configFile \in {OneDimensionConfig(m, ms) : m \in DimensionMaxScores, ms \in MetricsConfigs}
    /\ cachedConfig = configFile
    /\ MetricIdle
    /\ DimensionIdle
    /\ QualityIdle
    /\ BatchIdle
    /\ CacheIdle
    /\ LaterIdle

NextDimension ==
    \/ DimensionStart("dcat_ap", "findability")
    \/ DimensionMetric
    \/ DimensionFinish("findability")

SpecDimension == InitDimension /\ [][NextDimension]_vars

(***************************************************************************)
(* Properties of calculateDimension, checked on SpecDimension.             *)
(***************************************************************************)
RECURSIVE SumValueTimesWeight(_, _, _)
SumValueTimesWeight(cfg, ms, n) ==
    IF n = 0 THEN RInt(0)
    ELSE RAdd(SumValueTimesWeight(cfg, ms, n - 1), RMul(ms[n].value, RInt(cfg[n].weight)))

SumOfWeights(cfg) == SumSeq([i \in DOMAIN cfg |-> cfg[i].weight])

ScaleWeights(cfg, k) == [i \in DOMAIN cfg |-> [cfg[i] EXCEPT !.weight = @ * k]]

OneOutcomePerMetric ==
    /\ Len(dimension.metrics) = Len(metricsConfig)
    /\ \A i \in DOMAIN metricsConfig : dimension.metrics[i].id = metricsConfig[i].id

C4_ScoreFormula ==
    dpc = "done" =>
        /\ OneOutcomePerMetric
        /\ dimension.score =
              IF SumOfWeights(metricsConfig) = 0 THEN RInt(0)
              ELSE RMul(RDiv(RDiv(SumValueTimesWeight(metricsConfig, dimension.metrics,
                                                      Len(metricsConfig)),
                                  RInt(SumOfWeights(metricsConfig))),
                             RInt(100)),
                        RInt(dimensionMaxScore))

C4_Witness ==
    /\ dpc = "done"
    /\ RLt(RInt(0), dimension.score)
    /\ \E i \in DOMAIN metricsConfig :
          /\ metricsConfig[i].weight > 0
          /\ dimension.metrics[i].details.key = "metricDetails.metricNotImplemented"

ObjectKeys(obj) == SetToSeq(DOMAIN obj)

\* line 843: if (!dimensionsConfig) throw, stricter: also without profile_metrics
calculateQualityRejectsUnconfigured(config, profileId) ==
    ~HasProfileDimensions(config, profileId) \/ ~HasKey(config.profile_metrics, profileId)

\* line 843: if (!dimensionsConfig) throw new Error(`Profile ... not found`)
calculateQualityRejects(config, profileId) == ~HasProfileDimensions(config, profileId)

\* the keys of outputDimensions (lines 863-869)
OutputDimensionNames ==
    {"findability", "accessibility", "interoperability", "reusability", "contextuality"}

\* dimensions[key]: undefined is <<>>, a dimension d is <<d>>
Lookup(obj, key) == IF HasKey(obj, key) THEN <<obj[key]>> ELSE <<>>

outputDimensions(dims) == [k \in OutputDimensionNames |-> Lookup(dims, k)]

\* lines 855-860: totalScore += dim.score over dimensionNames
RECURSIVE totalScoreOf(_, _, _)
totalScoreOf(names, dims, n) ==
    IF n = 0 THEN RInt(0)
    ELSE RAdd(totalScoreOf(names, dims, n - 1), dims[names[n]].score)

\* the returned QualityAssessment
QualityAssessment(names, dims, maxScore) ==
    [overallScore |-> MathRound(totalScoreOf(names, dims, Len(names))),
     maxScore |-> maxScore,
     dimensions |-> outputDimensions(dims)]

(***************************************************************************)
(* Specification SpecQuality: one calculateQuality call, dimension by      *)
(* dimension, over a family of configurations.                             *)
(***************************************************************************)
Metric(id, weight) == [id |-> id, weight |-> weight, property |-> "p"]

DimensionKeySets ==
    {OutputDimensionNames, OutputDimensionNames \ {"contextuality"},
     OutputDimensionNames \cup {"contextual"}, {}}

ProfileDimensionMaxScore ==
    [findability |-> 100, accessibility |-> 100, interoperability |-> 110, reusability |-> 75,
     contextuality |-> 20, contextual |-> 20]

ProfileDimensionMetrics ==
    [findability |-> <<Metric("dcat_keyword", 30)>>,
     accessibility |-> <<Metric("dcat_access_url_status", 50), Metric("dcat_download_url", 20)>>,
     interoperability |-> <<Metric("dct_format_machine_readable", 20),
                            Metric("dcat_ap_compliance", 30)>>,
     reusability |-> <<Metric("dct_license_vocabulary", 10)>>,
     contextuality |-> <<Metric("dct_rights", 5)>>,
     contextual |-> <<Metric("dcat_byte_size", 5)>>]

UnknownMetric == Metric("dcat_unknown", 10)

\* where the configuration names a metric that evaluateMetric has no case for
UnknownPlacements == {"none"} \cup OutputDimensionNames

ProfileConfigOf(keys, unknownIn, defaultVersion, withMetrics) ==
    [profiles |->
        [dcat_ap |->
            [defaultVersion |-> defaultVersion,
             versions |-> [v \in {"3.0.0"} |->
                [name |-> "DCAT-AP", maxScore |-> 405,
                 dimensions |-> [k \in keys |-> [maxScore |-> ProfileDimensionMaxScore[k]]]]]]],
     profile_metrics |->
        IF withMetrics
        THEN [p \in {"dcat_ap"} |->
                [k \in keys |-> IF k = unknownIn
                                THEN <<UnknownMetric>> \o ProfileDimensionMetrics[k]
                                ELSE ProfileDimensionMetrics[k]]]
        ELSE <<>>]

QualityConfigs ==
    {ProfileConfigOf(keys, u, "3.0.0", TRUE) : keys \in DimensionKeySets, u \in UnknownPlacements}
      \cup {ProfileConfigOf(OutputDimensionNames, "none", "2.1.1", TRUE),
            ProfileConfigOf(OutputDimensionNames, "none", "3.0.0", FALSE)}

RequestedProfiles == {"dcat_ap", "nti_risp"}

QualityStores == {{}, StoreOf(<<2>>, <<2>>), StoreOf(<<2, 3>>, <<1, 2>>)}

\* calculateQuality up to its first loop
QualityStart(profileId) ==
    /\ qpc = "idle"
    /\ profile' = profileId
    /\ \E fetchOk \in (IF cachedConfig = NoConfig THEN BOOLEAN ELSE {TRUE}) :
          LET loaded == loadConfig(cachedConfig, configFile, fetchOk)
          IN  /\ cachedConfig' = loaded.config
              /\ IF ~loaded.ok \/ calculateQualityRejects(loaded.config, profileId)
                 THEN /\ qpc' = "rejected"
                      /\ dimensionNames' = dimensionNames
                 ELSE /\ qpc' = "dimensions"
                      /\ dimensionNames' = ObjectKeys(getProfileDimensions(loaded.config, profileId))
    /\ UNCHANGED <<store, urlCheckEnabled, urlCheckTimeout, vocab, configFile, cacheVars, laterVars, dimensions,
                   batchLog, assessment, metricVars, dimensionVars, batchVars>>

\* one iteration of the first loop: dimensions[dimName] = await calculateDimension(...)
QualityDimensionStep ==
    /\ qpc = "dimensions"
    /\ Len(batchLog) < Len(dimensionNames)
    /\ LET dimName == dimensionNames[Len(batchLog) + 1]
           cfg == getProfileMetrics(cachedConfig, profile, dimName)
       IN  /\ IF DimensionUsesVocabulary(cfg, store)
              THEN \E outcomes \in VocabFetchOutcomes :
                      vocab' = ensureVocabulariesLoaded(vocab, outcomes)
              ELSE vocab' = vocab
           /\ \E batches \in DimensionBatchReturns(cfg, store, urlCheckEnabled, Len(cfg)) :
                /\ dimensions' = (dimName :> calculateDimension(cachedConfig, profile, dimName,
                                      store, urlCheckEnabled, vocab', batches)) @@ dimensions
                /\ batchLog' = Append(batchLog, [name |-> dimName, vocab |-> vocab',
                                                 batches |-> batches])
    /\ UNCHANGED <<store, urlCheckEnabled, urlCheckTimeout, cachedConfig, configFile, cacheVars, laterVars, qpc, profile,
                   dimensionNames, assessment, metricVars, dimensionVars, batchVars>>

\* the second loop, the output mapping and the return
QualityFinish ==
    /\ qpc = "dimensions"
    /\ Len(batchLog) = Len(dimensionNames)
    /\ assessment' = QualityAssessment(dimensionNames, dimensions, getMaxScore(cachedConfig, profile))
    /\ qpc' = "done"
    /\ UNCHANGED <<processVars, profile, dimensionNames, dimensions, batchLog, metricVars,
                   dimensionVars, batchVars>>

InitQuality ==
    /\ store \in QualityStores
    /\ urlCheckEnabled \in BOOLEAN
    /\ urlCheckTimeout = DEFAULT_CONFIG.timeout
    /\ vocab = NullVocabularies
    /\ configFile \in QualityConfigs
    /\ cachedConfig \in {NoConfig, configFile}
    /\ MetricIdle
    /\ DimensionIdle
    /\ QualityIdle
    /\ BatchIdle
    /\ CacheIdle
    /\ LaterIdle

NextQuality ==
    \/ \E p \in RequestedProfiles : QualityStart(p)
    \/ QualityDimensionStep
    \/ QualityFinish

SpecQuality == InitQuality /\ [][NextQuality]_vars

(***************************************************************************)
(* Properties of calculateQuality, checked on SpecQuality.                 *)
(***************************************************************************)
IsKnownMetric(m) == m.id \in KnownIds

HasUnknownMetric(cfg) == \E i \in DOMAIN cfg : ~IsKnownMetric(cfg[i])

\* the configuration with the metrics of unknown id taken out of every list
WithoutUnknownMetrics(config) ==
    [profiles |-> config.profiles,
     profile_metrics |->
        [p \in DOMAIN config.profile_metrics |->
            [k \in DOMAIN config.profile_metrics[p] |->
                SelectSeq(config.profile_metrics[p][k], IsKnownMetric)]]]

IsNotImplementedOutcome(m) ==
    /\ m.value = RInt(0)
    /\ m.passed = FALSE
    /\ m.details.key = "metricDetails.metricNotImplemented"

\* C7: a metric whose id has no case evaluates to 0, not passed, with the
\* metricNotImplemented detail; an assessment whose configuration names one is not
\* rejected; and every dimension other than the one holding it is the dimension
\* computed from the configuration without it
C7_UnknownMetricContained ==
    /\ \A j \in DOMAIN batchLog :
          LET d == batchLog[j].name
              cfg == getProfileMetrics(cachedConfig, profile, d)
          IN  /\ \A i \in DOMAIN cfg :
                    ~IsKnownMetric(cfg[i]) => IsNotImplementedOutcome(dimensions[d].metrics[i])
              /\ ~HasUnknownMetric(cfg) =>
                    dimensions[d] = calculateDimension(WithoutUnknownMetrics(cachedConfig), profile,
                                        d, store, urlCheckEnabled, batchLog[j].vocab,
                                        batchLog[j].batches)
    /\ qpc = "rejected" => (cachedConfig = NoConfig \/ ~ProfileFound(cachedConfig, profile))

C7_Witness ==
    /\ qpc = "done"
    /\ HasUnknownMetric(getProfileMetrics(cachedConfig, profile, "accessibility"))
    /\ Len(assessment.dimensions["findability"]) = 1
    /\ RLt(RInt(0), assessment.dimensions["findability"][1].score)
    /\ Len(assessment.dimensions["reusability"]) = 1
    /\ RLt(RInt(0), assessment.dimensions["reusability"][1].score)

\* C8: a started calculateQuality is rejected exactly when the configuration
\* cannot be loaded or the requested profile (its default version) is not in it;
\* unknown metric ids, stores without entities, URL check failures and vocabulary
\* load failures end in a returned assessment
C8_OnlyConfigurationRejects ==
    /\ qpc # "idle" =>
          (qpc = "rejected" <=> (cachedConfig = NoConfig \/ ~ProfileFound(cachedConfig, profile)))
    /\ qpc = "done" => assessment.maxScore = getMaxScore(cachedConfig, profile)

\* C8 as stated: a started calculateQuality is rejected exactly when the requested
\* profile is not in the configuration
C8_OnlyMissingProfileRejects ==
    qpc # "idle" => (qpc = "rejected" <=> ~ProfileFound(configFile, profile))

C8_Witness ==
    /\ qpc = "done"
    /\ vocab.KNOWN_LICENSES = LoadedSet({})
    /\ HasUnknownMetric(getProfileMetrics(cachedConfig, profile, "findability"))
    /\ urlCheckEnabled
    /\ Len(accessUrlsToCheck(store)) > 0
    /\ Len(assessment.dimensions["accessibility"]) = 1
    /\ assessment.dimensions["accessibility"][1].metrics[1].value = RInt(0)

\* C9: a returned assessment defines all five dimensions, and each dimension's
\* metrics list holds one outcome per metric configured for it, in configuration
\* order, whatever dimension keys the profile configuration holds
C9_AssessmentComplete ==
    qpc = "done" =>
        \A k \in OutputDimensionNames :
            /\ Len(assessment.dimensions[k]) = 1
            /\ LET cfg == getProfileMetrics(cachedConfig, profile, k)
                   ms == assessment.dimensions[k][1].metrics
               IN  /\ Len(ms) = Len(cfg)
                   /\ \A i \in DOMAIN cfg : ms[i].id = cfg[i].id

RECURSIVE ReturnedScoreSum(_, _)
ReturnedScoreSum(out, keys) ==
    IF keys = {} THEN RInt(0)
    ELSE LET k == CHOOSE x \in keys : TRUE
         IN  RAdd(IF Len(out[k]) = 1 THEN out[k][1].score ELSE RInt(0),
                  ReturnedScoreSum(out, keys \ {k}))

\* C10: overallScore is the rounded sum of the scores of the dimensions in the
\* returned assessment, whatever dimension keys the profile configuration holds
C10_OverallScoreOfReturned ==
    qpc = "done" =>
        assessment.overallScore =
            MathRound(ReturnedScoreSum(assessment.dimensions, OutputDimensionNames))

\* the sum of the maxScore of the five dimensions of the output, as configured
RECURSIVE SumOfMaxScores(_, _)
SumOfMaxScores(dimensionsConfig, keys) ==
    IF keys = {} THEN 0
    ELSE LET k == CHOOSE x \in keys : TRUE
         IN  (IF HasKey(dimensionsConfig, k) THEN dimensionsConfig[k].maxScore ELSE 0)
                + SumOfMaxScores(dimensionsConfig, keys \ {k})

\* C15: when the maxScore of the five dimensions add up to the profile's declared
\* maxScore, the overallScore of a returned assessment is at most its maxScore.
C15_OverallWithinMaxScore ==
    (/\ qpc = "done"
     /\ SumOfMaxScores(getProfileDimensions(cachedConfig, profile), OutputDimensionNames)
           = getMaxScore(cachedConfig, profile))
    => assessment.overallScore <= assessment.maxScore

(***************************************************************************)
(* The cached single-URL check (url-status-client.ts): checkUrlStatus and  *)
(* checkUrlStatusCached over the module-level urlCache.                    *)
(***************************************************************************)
CACHE_TTL == 5 * 60 * 1000
cacheCleanupSize == 1000

MaxCalls == 2
MaxTicks == 2

CacheURLs == BatchURLs

\* what the POST to /api/check-url-status comes back with: an OK response carrying
\* the server's result, a response that is not OK, or a rejected fetch.  The calls
\* explored see an accessible URL, an inaccessible one and an API error; a rejected
\* fetch takes the same catch block as the API error.
ApiOk(result) == [kind |-> "ok", status |-> 200, result |-> result]
ApiNotOk(status) ==
    [kind |-> "notOk", status |-> status, result |-> CheckUrlResponse("", FALSE, <<>>, <<>>)]
ApiThrows == [kind |-> "throws", status |-> 0, result |-> CheckUrlResponse("", FALSE, <<>>, <<>>)]

PostOutcomes(url) ==
    {ApiOk(responseResult(url, 200)), ApiOk(errorResult(url, "ENOTFOUND")), ApiNotOk(500)}

apiErrorMessage(status) ==
    CASE status = 400 -> "API error: 400"
      [] status = 500 -> "API error: 500"
      [] OTHER -> "API error"

\* checkUrlStatus(url, timeout) of the client, given what the POST came back with
clientCheckUrlStatus(url, outcome) ==
    CASE outcome.kind = "ok" -> outcome.result
      [] outcome.kind = "notOk" ->
            CheckUrlResponse(url, FALSE, <<>>, <<apiErrorMessage(outcome.status)>>)
      [] OTHER -> CheckUrlResponse(url, FALSE, <<>>, <<"Failed to fetch">>)

CacheEntry(result, timestamp) == [result |-> result, timestamp |-> timestamp]

\* the freshness test with its comparison turned around
cacheHitInverted(cache, url, now) ==
    url \in DOMAIN cache /\ now - cache[url].timestamp > CACHE_TTL

\* cached && (now - cached.timestamp) < CACHE_TTL
cacheHit(cache, url, now) ==
    url \in DOMAIN cache /\ now - cache[url].timestamp < CACHE_TTL

\* urlCache.set(url, { result, timestamp: now })
cacheSet(cache, url, result, now) ==
    [u \in DOMAIN cache \cup {url} |->
        IF u = url THEN CacheEntry(result, now) ELSE cache[u]]

cacheSize(cache, others) == Cardinality(DOMAIN cache) + others.count

\* the cleanup starting at cacheCleanupSize entries already
cacheCleanupAtThreshold(cache, others, now) ==
    IF cacheSize(cache, others) >= cacheCleanupSize
    THEN LET cutoff == now - CACHE_TTL
             kept == {u \in DOMAIN cache : ~(cache[u].timestamp < cutoff)}
         IN  [u \in kept |-> cache[u]]
    ELSE cache

\* the periodic cleanup: above cacheCleanupSize entries, drop those older than the cutoff
cacheCleanup(cache, others, now) ==
    IF cacheSize(cache, others) > cacheCleanupSize
    THEN LET cutoff == now - CACHE_TTL
             kept == {u \in DOMAIN cache : ~(cache[u].timestamp < cutoff)}
         IN  [u \in kept |-> cache[u]]
    ELSE cache

otherEntriesCleanup(cache, others, now) ==
    IF cacheSize(cache, others) > cacheCleanupSize /\ others.timestamp < now - CACHE_TTL
    THEN [others EXCEPT !.count = 0]
    ELSE others

CompletedCalls == {c \in DOMAIN cachedCalls : cachedCalls[c].pc = "done"}

\* checkUrlStatusCached(url, timeout) up to its return or its await
CachedCall(url) ==
    /\ Len(cachedCalls) < MaxCalls
    /\ LET now == clock
           hit == cacheHit(urlCache, url, now)
           call == [url |-> url, now |-> now, started |-> Cardinality(CompletedCalls),
                    pc |-> IF hit THEN "done" ELSE "awaiting",
                    completed |-> IF hit THEN Cardinality(CompletedCalls) + 1 ELSE 0,
                    result |-> IF hit THEN urlCache[url].result
                               ELSE CheckUrlResponse("", FALSE, <<>>, <<>>)]
       IN  /\ cachedCalls' = Append(cachedCalls, call)
           /\ postRequests' =
                IF hit THEN postRequests
                ELSE Append(postRequests, [call |-> Len(cachedCalls) + 1, url |-> url])
    /\ UNCHANGED <<store, urlCheckEnabled, urlCheckTimeout, vocab, cachedConfig, configFile, laterVars,
                   urlCache, otherEntries, clock, metricVars, dimensionVars, qualityVars,
                   batchVars>>

\* the awaited checkUrlStatus settles: the entry is stored under the call's own now
CachedResponse(c, outcome) ==
    /\ c \in DOMAIN cachedCalls
    /\ cachedCalls[c].pc = "awaiting"
    /\ LET url == cachedCalls[c].url
           now == cachedCalls[c].now
           result == clientCheckUrlStatus(url, outcome)
           stored == cacheSet(urlCache, url, result, now)
       IN  /\ urlCache' = cacheCleanup(stored, otherEntries, now)
           /\ otherEntries' = otherEntriesCleanup(stored, otherEntries, now)
           /\ cachedCalls' = [cachedCalls EXCEPT ![c].pc = "done", ![c].result = result,
                                  ![c].completed = Cardinality(CompletedCalls) + 1]
    /\ UNCHANGED <<store, urlCheckEnabled, urlCheckTimeout, vocab, cachedConfig, configFile, laterVars,
                   clock, postRequests, metricVars, dimensionVars, qualityVars, batchVars>>

\* time passes
TickSteps == {1, CACHE_TTL - 1}
Ticks(t) == ((t - CACHE_TTL) \div (CACHE_TTL - 1)) + ((t - CACHE_TTL) % (CACHE_TTL - 1))

Tick(d) ==
    /\ Ticks(clock) < MaxTicks
    /\ clock' = clock + d
    /\ UNCHANGED <<store, urlCheckEnabled, urlCheckTimeout, vocab, cachedConfig, configFile, laterVars,
                   urlCache, otherEntries, cachedCalls, postRequests, metricVars,
                   dimensionVars, qualityVars, batchVars>>

\* the cache is empty at first (module load), or it is that of a page that has been
\* open for a while: an entry stored CACHE_TTL ago and cacheCleanupSize recent ones,
\* or two fewer, so that the next new entry brings the size to cacheCleanupSize
OldCache ==
    [u \in {"http://a.example/x"} |->
        CacheEntry(responseResult("http://a.example/x", 200), 0)]

InitCache ==
    /\ store = {}
    /\ urlCheckEnabled = DEFAULT_CONFIG.enabled
    /\ urlCheckTimeout = DEFAULT_CONFIG.timeout
    /\ vocab = NullVocabularies
    /\ cachedConfig = NoConfig
    /\ configFile = NoConfig
    /\ MetricIdle
    /\ DimensionIdle
    /\ QualityIdle
    /\ BatchIdle
    /\ LaterIdle
    /\ clock = CACHE_TTL
    /\ \/ /\ urlCache = <<>>
          /\ otherEntries = [count |-> 0, timestamp |-> 0]
       \/ /\ urlCache = OldCache
          /\ otherEntries \in {[count |-> cacheCleanupSize, timestamp |-> CACHE_TTL],
                               [count |-> cacheCleanupSize - 2, timestamp |-> CACHE_TTL]}
    /\ cachedCalls = <<>>
    /\ postRequests = <<>>

NextCache ==
    \/ \E url \in CacheURLs : CachedCall(url)
    \/ \E c \in DOMAIN cachedCalls : \E outcome \in PostOutcomes(cachedCalls[c].url) :
            CachedResponse(c, outcome)
    \/ \E d \in TickSteps : Tick(d)

SpecCache == InitCache /\ [][NextCache]_vars

(***************************************************************************)
(* C11: cache hits.                                                        *)
(***************************************************************************)
Requested(c) == \E i \in DOMAIN postRequests : postRequests[i].call = c

\* the calls for the url of c2 that went to the network and completed before c2 began
WritersBefore(c2) ==
    {c1 \in CompletedCalls :
        /\ cachedCalls[c1].url = cachedCalls[c2].url
        /\ Requested(c1)
        /\ cachedCalls[c1].completed <= cachedCalls[c2].started}

\* the one among them that completed last: its entry is the one c2 finds
IsLastWriterBefore(c1, c2) ==
    /\ c1 \in WritersBefore(c2)
    /\ \A c \in WritersBefore(c2) : cachedCalls[c].completed <= cachedCalls[c1].completed

\* C11: a completed call of checkUrlStatusCached that began after an earlier call for
\* the same URL had completed, and less than CACHE_TTL after the timestamp that call
\* stored, sent no request and returned the result that call stored, whatever it was.
C11_CacheHitWithinTtl ==
    \A c2 \in CompletedCalls : \A c1 \in CompletedCalls :
        (IsLastWriterBefore(c1, c2)
            /\ cachedCalls[c2].now - cachedCalls[c1].now < CACHE_TTL)
        => (~Requested(c2) /\ cachedCalls[c2].result = cachedCalls[c1].result)

\* a later call, made after time has passed, answered from an entry holding an API error
C11_Witness ==
    \E c2 \in CompletedCalls : \E c1 \in CompletedCalls :
        /\ IsLastWriterBefore(c1, c2)
        /\ cachedCalls[c2].now - cachedCalls[c1].now = CACHE_TTL - 1
        /\ cachedCalls[c1].result.error = <<"API error: 500">>
        /\ ~Requested(c2)
        /\ cachedCalls[c2].result = cachedCalls[c1].result

C28_OneProbePerWindow ==
    \A c1, c2 \in DOMAIN cachedCalls :
        (/\ c1 < c2
         /\ cachedCalls[c1].url = cachedCalls[c2].url
         /\ cachedCalls[c2].now - cachedCalls[c1].now < CACHE_TTL)
        => ~(Requested(c1) /\ Requested(c2))

\* C29: no step replaces the cache entry of a URL by an entry with a smaller timestamp.
C29_TimestampsNeverDecrease ==
    [][\A u \in DOMAIN urlCache \cap DOMAIN urlCache' :
          urlCache'[u].timestamp >= urlCache[u].timestamp]_vars

(***************************************************************************)
(* checkUrlStatus step by step (route.ts, lines 133-232): the two timers,  *)
(* the HEAD request, the GET fallback, and the PUT handler's Promise.all   *)
(* over the calls; the caller sends its chunks one after the other.        *)
(***************************************************************************)
MaxProbes == 2     \* at most this many URLs in a request
MaxChunks == 2     \* at most this many requests in a row

ProbeURLs == {"http://a.example/x", MalformedURL}
ProbeTimeouts == {headTimeoutCap, DEFAULT_CONFIG.timeout}
HeadStatuses == {200, 404, 405, 501}
GetStatuses == {200, 404}
ProbeFailures(url) == IF url = MalformedURL THEN {"ERR_INVALID_URL"} ELSE {"ENOTFOUND"}

NoOutcome == [kind |-> "none", status |-> 0, code |-> ""]
NoProbeResult == CheckUrlResponse("", FALSE, <<>>, <<>>)

\* the call as it starts: both timers armed, the HEAD request in flight
NewProbe(url, timeout) ==
    [pc |-> "head", url |-> url, timeout |-> timeout, timeoutId |-> TRUE,
     headTimeoutId |-> TRUE, controllerAborted |-> FALSE, head |-> NoOutcome,
     getIssued |-> FALSE, getSent |-> FALSE, result |-> NoProbeResult]

\* response.status === 405 || response.status === 501, read as any client or server error
headNotSupportedAnyError(status) == status >= 400

\* response.status === 405 || response.status === 501
headNotSupported(status) == status = 405 \/ status = 501

\* the call returns: clearTimeout(timeoutId) and the result
probeReturns(p, result) == [p EXCEPT !.pc = "done", !.timeoutId = FALSE, !.result = result]

\* catch (headError): clearTimeout(headTimeoutId) and fetch(url, { method: 'GET', signal:
\* controller.signal }); a fetch on an aborted signal rejects at once with AbortError and
\* nothing goes out
fetchGet(p, headSeen) ==
    LET q == [p EXCEPT !.head = headSeen, !.headTimeoutId = FALSE, !.getIssued = TRUE]
    IN  IF p.controllerAborted
        THEN probeReturns(q, errorResult(p.url, "AbortError"))
        ELSE [q EXCEPT !.pc = "get", !.getSent = TRUE]

\* the HEAD request is answered
headAnswers(p, status) ==
    IF headNotSupported(status) THEN fetchGet(p, Answer(status))
    ELSE probeReturns([p EXCEPT !.head = Answer(status), !.headTimeoutId = FALSE],
                      responseResult(p.url, status))

\* the HEAD request fails in the transport
headFails(p, code) == fetchGet(p, Failure(code))

\* the HEAD timer fires after Math.min(timeout, 2000) ms.  The outer timer was armed
\* first: when its delay is the same it has fired just before
headTimerFires(p) ==
    LET outerFired == p.timeout <= headTimeoutCap
    IN  fetchGet([p EXCEPT !.controllerAborted = outerFired,
                           !.timeoutId = IF outerFired THEN FALSE ELSE @], Hang)

\* the GET request is answered, or fails in the transport
getAnswers(p, status) == probeReturns(p, responseResult(p.url, status))
getFails(p, code) == probeReturns(p, errorResult(p.url, code))

\* the outer timer fires while the GET is in flight, as if the GET had been started
\* without signal: controller.signal and went on waiting
outerTimerFiresUnheard(p) == [p EXCEPT !.controllerAborted = TRUE, !.timeoutId = FALSE]

\* the outer timer fires while the GET is in flight: the fetch rejects with AbortError
outerTimerFires(p) ==
    probeReturns([p EXCEPT !.controllerAborted = TRUE], errorResult(p.url, "AbortError"))

ProbeUrlLists == UNION {[1..n -> ProbeURLs] : n \in 1..MaxProbes}

\* the caller sends a chunk; PUT: urls.map(url => checkUrlStatus(url, timeout))
PutStart(urls, timeout) ==
    /\ ppc = "idle"
    /\ pendingChunks > 0
    /\ probeRuns' = [i \in DOMAIN urls |-> NewProbe(urls[i], timeout)]
    /\ ppc' = "probing"
    /\ UNCHANGED <<store, urlCheckEnabled, urlCheckTimeout, vocab, cachedConfig, configFile,
                   cacheVars, vocabLoadVars, hookVars, pendingChunks, metricVars, dimensionVars, qualityVars, batchVars>>

ProbeStep(i, after) ==
    /\ ppc = "probing"
    /\ probeRuns' = [probeRuns EXCEPT ![i] = after]
    /\ UNCHANGED <<store, urlCheckEnabled, urlCheckTimeout, vocab, cachedConfig, configFile,
                   cacheVars, vocabLoadVars, hookVars, ppc, pendingChunks, metricVars, dimensionVars, qualityVars,
                   batchVars>>

HeadAnswers(i, status) ==
    /\ i \in DOMAIN probeRuns
    /\ probeRuns[i].pc = "head"
    /\ probeRuns[i].url # MalformedURL
    /\ ProbeStep(i, headAnswers(probeRuns[i], status))

HeadFails(i) ==
    /\ i \in DOMAIN probeRuns
    /\ probeRuns[i].pc = "head"
    /\ \E code \in ProbeFailures(probeRuns[i].url) :
          ProbeStep(i, headFails(probeRuns[i], code))

HeadTimerFires(i) ==
    /\ i \in DOMAIN probeRuns
    /\ probeRuns[i].pc = "head"
    /\ probeRuns[i].headTimeoutId
    /\ probeRuns[i].url # MalformedURL
    /\ ProbeStep(i, headTimerFires(probeRuns[i]))

GetAnswers(i, status) ==
    /\ i \in DOMAIN probeRuns
    /\ probeRuns[i].pc = "get"
    /\ probeRuns[i].url # MalformedURL
    /\ ProbeStep(i, getAnswers(probeRuns[i], status))

GetFails(i) ==
    /\ i \in DOMAIN probeRuns
    /\ probeRuns[i].pc = "get"
    /\ \E code \in ProbeFailures(probeRuns[i].url) :
          ProbeStep(i, getFails(probeRuns[i], code))

OuterTimerFires(i) ==
    /\ i \in DOMAIN probeRuns
    /\ probeRuns[i].pc = "get"
    /\ probeRuns[i].timeoutId
    /\ probeRuns[i].url # MalformedURL
    /\ ProbeStep(i, outerTimerFires(probeRuns[i]))

\* Promise.all resolves, the handler answers and the caller's await returns
PutResponds ==
    /\ ppc = "probing"
    /\ \A i \in DOMAIN probeRuns : probeRuns[i].pc = "done"
    /\ pendingChunks' = pendingChunks - 1
    /\ ppc' = IF pendingChunks = 1 THEN "complete" ELSE "idle"
    /\ UNCHANGED <<store, urlCheckEnabled, urlCheckTimeout, vocab, cachedConfig, configFile,
                   cacheVars, vocabLoadVars, hookVars, probeRuns, metricVars, dimensionVars, qualityVars, batchVars>>

InitProbe ==
    /\ store = {}
    /\ urlCheckEnabled = DEFAULT_CONFIG.enabled
    /\ urlCheckTimeout = DEFAULT_CONFIG.timeout
    /\ vocab = NullVocabularies
    /\ cachedConfig = NoConfig
    /\ configFile = NoConfig
    /\ MetricIdle
    /\ DimensionIdle
    /\ QualityIdle
    /\ BatchIdle
    /\ CacheIdle
    /\ VocabLoadIdle
    /\ HookIdle
    /\ ppc = "idle"
    /\ probeRuns = <<>>
    /\ pendingChunks \in 1..MaxChunks

NextProbe ==
    \/ \E urls \in ProbeUrlLists : \E timeout \in ProbeTimeouts : PutStart(urls, timeout)
    \/ \E i \in DOMAIN probeRuns : \E status \in HeadStatuses : HeadAnswers(i, status)
    \/ \E i \in DOMAIN probeRuns : HeadFails(i)
    \/ \E i \in DOMAIN probeRuns : HeadTimerFires(i)
    \/ \E i \in DOMAIN probeRuns : \E status \in GetStatuses : GetAnswers(i, status)
    \/ \E i \in DOMAIN probeRuns : GetFails(i)
    \/ \E i \in DOMAIN probeRuns : OuterTimerFires(i)
    \/ PutResponds

SpecProbe == InitProbe /\ [][NextProbe]_vars

\* C21: in checkUrlStatus the GET fallback is called exactly when the HEAD request
\* failed in the transport, was aborted by its timer, or was answered 405 or 501; any
\* other HEAD answer ends the call, with that answer's status code and
\* accessible = (status in 200..299).
C21_GetOnlyAfterHeadFailure ==
    \A i \in DOMAIN probeRuns :
        LET p == probeRuns[i]
            final == p.head.kind = "response" /\ p.head.status \notin {405, 501}
        IN  /\ p.pc = "head" => ~p.getIssued /\ p.head = NoOutcome
            /\ p.pc \in {"get", "done"} => p.head # NoOutcome /\ (p.getIssued <=> ~final)
            /\ p.pc = "get" => ~final
            /\ (p.pc = "done" /\ final) =>
                  p.result = CheckUrlResponse(p.url,
                                              p.head.status >= 200 /\ p.head.status <= 299,
                                              <<p.head.status>>, <<>>)

\* C21 witness: of two calls of one request, one had its HEAD answered 404 and returned
\* statusCode 404, not accessible, without a GET; the other had its HEAD answered 405 and
\* its GET answered 200
C21_Witness ==
    /\ Len(probeRuns) = 2
    /\ probeRuns[1].pc = "done"
    /\ probeRuns[1].head = Answer(404)
    /\ ~probeRuns[1].getIssued
    /\ probeRuns[1].result.statusCode = <<404>>
    /\ ~probeRuns[1].result.accessible
    /\ probeRuns[2].pc = "done"
    /\ probeRuns[2].head = Answer(405)
    /\ probeRuns[2].getIssued
    /\ probeRuns[2].result.statusCode = <<200>>
    /\ probeRuns[2].result.accessible

\* The same machine with what the platform's event loop gives: while something it has
\* scheduled is ready (an armed timer, the rejection of a fetch of a string that is no
\* URL, the answer to a settled Promise.all, the caller's next request), it runs one of
\* them.  Nothing is assumed of the remote server: it may leave every HEAD and every
\* GET unanswered.
Scheduled ==
    \/ \E i \in DOMAIN probeRuns : HeadTimerFires(i)
    \/ \E i \in DOMAIN probeRuns : OuterTimerFires(i)
    \/ \E i \in DOMAIN probeRuns : HeadFails(i) /\ probeRuns[i].url = MalformedURL
    \/ \E i \in DOMAIN probeRuns : GetFails(i) /\ probeRuns[i].url = MalformedURL
    \/ PutResponds
    \/ \E urls \in ProbeUrlLists : \E timeout \in ProbeTimeouts : PutStart(urls, timeout)

ProbeFairness == WF_vars(Scheduled)

SpecProbeLive == SpecProbe /\ ProbeFairness

\* C27: every run comes to rest with the caller's last request answered.  A request is
\* answered only when each of its checkUrlStatus calls has returned, and a call that
\* has returned has returned a result; so every call returns, every request is
\* answered and the caller's sequence of requests ends, whatever the remote server
\* does or fails to do.
C27_ProbesTerminate ==
    /\ [](\A i \in DOMAIN probeRuns :
            /\ probeRuns[i].pc = "done" => probeRuns[i].result # NoProbeResult
            /\ ppc \in {"idle", "complete"} => probeRuns[i].pc = "done")
    /\ <>[](ppc = "complete" /\ pendingChunks = 0)

\* C27 witness: the caller's last request is answered, and one of its calls, made with
\* a 3000 ms timeout, had neither its HEAD nor its GET answered: the HEAD timer sent it
\* to the GET and the outer timer ended it with AbortError
C27_Witness ==
    /\ ppc = "complete"
    /\ \E i \in DOMAIN probeRuns :
          /\ probeRuns[i].pc = "done"
          /\ probeRuns[i].timeout > headTimeoutCap
          /\ probeRuns[i].head = Hang
          /\ probeRuns[i].getSent
          /\ probeRuns[i].controllerAborted
          /\ probeRuns[i].result = errorResult(probeRuns[i].url, "AbortError")

(***************************************************************************)
(* Concurrent calls of the four membership checks (config.ts, lines        *)
(* 264-345): each call runs up to its await, and continues when the        *)
(* awaited promise settles.                                                *)
(***************************************************************************)
MaxVocabCalls == 2

VocabCheckCalls ==
    {[fn |-> "isKnownLicense", arg |-> "http://lic.example/cc-by"],
     [fn |-> "isKnownLicense", arg |-> "http://lic.example/other"],
     [fn |-> "isKnownAccessRights", arg |-> "http://ar.example/PUBLIC"],
     [fn |-> "isMachineReadable", arg |-> "CSV"],
     [fn |-> "isNonProprietary", arg |-> "text/csv"]}

\* the return statement of the four functions
membershipAnswer(fn, v, arg) ==
    CASE fn = "isKnownLicense" -> isKnownLicense(v, arg)
      [] fn = "isKnownAccessRights" -> isKnownAccessRights(v, arg)
      [] fn = "isMachineReadable" -> isMachineReadable(v, arg)
      [] fn = "isNonProprietary" -> isNonProprietary(v, arg)

\* a membership check is called: ensureVocabulariesLoaded tests KNOWN_LICENSES and, when
\* it is null, loadAllVocabularies tests it again and starts the six fetches
VocabCall(call) ==
    /\ Len(vocabCalls) < MaxVocabCalls
    /\ IF vocab.KNOWN_LICENSES.isNull
       THEN /\ vocabFetches' = [n \in VocabularyNames |-> vocabFetches[n] + 1]
            /\ vocabCalls' = Append(vocabCalls, [fn |-> call.fn, arg |-> call.arg,
                                                 pc |-> "loading", answer |-> FALSE])
       ELSE /\ vocabFetches' = vocabFetches
            /\ vocabCalls' = Append(vocabCalls, [fn |-> call.fn, arg |-> call.arg,
                                                 pc |-> "loaded", answer |-> FALSE])
    /\ UNCHANGED <<store, urlCheckEnabled, urlCheckTimeout, vocab, cachedConfig, configFile,
                   cacheVars, probeVars, hookVars, vocabAssignments, metricVars, dimensionVars,
                   qualityVars, batchVars>>

\* the Promise.all of a call's six loadVocabulary promises resolves: the six sets are
\* assigned
VocabLoadResolves(c, outcomes) ==
    /\ c \in DOMAIN vocabCalls
    /\ vocabCalls[c].pc = "loading"
    /\ vocab' = [n \in VocabularyNames |-> loadVocabulary(n, outcomes[n])]
    /\ vocabAssignments' = vocabAssignments + 1
    /\ vocabCalls' = [vocabCalls EXCEPT ![c].pc = "loaded"]
    /\ UNCHANGED <<store, urlCheckEnabled, urlCheckTimeout, cachedConfig, configFile,
                   cacheVars, probeVars, hookVars, vocabFetches, metricVars, dimensionVars,
                   qualityVars, batchVars>>

\* await ensureVocabulariesLoaded() returns and the call answers from the set
VocabCallReturns(c) ==
    /\ c \in DOMAIN vocabCalls
    /\ vocabCalls[c].pc = "loaded"
    /\ vocabCalls' = [vocabCalls EXCEPT
                         ![c].pc = "done",
                         ![c].answer = membershipAnswer(vocabCalls[c].fn, vocab,
                                                        vocabCalls[c].arg)]
    /\ UNCHANGED <<store, urlCheckEnabled, urlCheckTimeout, vocab, cachedConfig, configFile,
                   cacheVars, probeVars, hookVars, vocabFetches, vocabAssignments, metricVars,
                   dimensionVars, qualityVars, batchVars>>

InitVocab ==
    /\ store = {}
    /\ urlCheckEnabled = DEFAULT_CONFIG.enabled
    /\ urlCheckTimeout = DEFAULT_CONFIG.timeout
    /\ vocab = NullVocabularies
    /\ cachedConfig = NoConfig
    /\ configFile = NoConfig
    /\ MetricIdle
    /\ DimensionIdle
    /\ QualityIdle
    /\ BatchIdle
    /\ CacheIdle
    /\ LaterIdle

NextVocab ==
    \/ \E call \in VocabCheckCalls : VocabCall(call)
    \/ \E c \in DOMAIN vocabCalls : \E outcomes \in VocabFetchOutcomes :
          VocabLoadResolves(c, outcomes)
    \/ \E c \in DOMAIN vocabCalls : VocabCallReturns(c)

SpecVocab == InitVocab /\ [][NextVocab]_vars

\* C23: whatever the interleaving of concurrent first calls of the membership checks,
\* each vocabulary file is fetched at most once and the sets are assigned at most once.
C23_VocabulariesInitializedOnce ==
    /\ \A n \in VocabularyNames : vocabFetches[n] <= 1
    /\ vocabAssignments <= 1

(***************************************************************************)
(* The useValidation hook (useValidation.ts, lines 18-119): validate runs  *)
(* up to its next await and continues when the awaited promise settles;    *)
(* the state updates of one such run are applied together.                 *)
(***************************************************************************)
MaxValidations == 2

ValidationInputs ==
    {[type |-> "text", content |-> "", url |-> ""],
     [type |-> "text", content |-> "<d> a dcat:Dataset .", url |-> ""],
     [type |-> "url", content |-> "", url |-> ""],
     [type |-> "url", content |-> "", url |-> "http://data.example/catalog.ttl"]}

Settled(ok, message) == [ok |-> ok, message |-> message]

\* how the promise awaited at a stage can settle: as the stage needs it, or in a way
\* that makes validate throw, with the message the catch block then stores
AwaitOutcomes(stage) ==
    CASE stage = "downloading" ->
            {Settled(TRUE, ""), Settled(FALSE, "Failed to download data from URL"),
             Settled(FALSE, "Downloaded content is empty or invalid")}
      [] stage = "parsing" ->
            {Settled(TRUE, ""), Settled(FALSE, "No RDF triples found in the content"),
             Settled(FALSE, "Parse error")}
      [] stage = "shacl" -> {Settled(TRUE, ""), Settled(FALSE, "SHACL validation failed")}
      [] OTHER -> {Settled(TRUE, ""), Settled(FALSE, "Validation failed")}

\* catch (err) { setError(errorMessage) } finally { setIsLoading(false) }
validateFails(v, message) == [v EXCEPT !.error = <<message>>, !.isLoading = FALSE]

\* setIsLoading(true); setError(null); setResult(null); setProgress('Preparing data...')
validateBegins(v) ==
    [v EXCEPT !.isLoading = TRUE, !.error = <<>>, !.result = <<>>,
              !.progress = "Preparing data..."]

NewValidate(input, pc) == [input |-> input, pc |-> pc, result |-> <<>>, error |-> <<>>]
ValidateFailed(call, message) == [call EXCEPT !.pc = "done", !.error = <<message>>]

\* validate(input, profile) up to its first await, or to its end when it throws before
Validate(input) ==
    /\ Len(validateCalls) < MaxValidations
    /\ LET v == validateBegins(validation)
           call == NewValidate(input, "done")
       IN  CASE input.type = "text" /\ input.content = "" ->
                  /\ validation' = validateFails(v, "No RDF content to validate")
                  /\ validateCalls' =
                        Append(validateCalls, ValidateFailed(call, "No RDF content to validate"))
             [] input.type = "text" /\ input.content # "" ->
                  /\ validation' = [v EXCEPT !.progress = "Parsing RDF..."]
                  /\ validateCalls' = Append(validateCalls, NewValidate(input, "parsing"))
             [] input.type = "url" /\ input.url = "" ->
                  /\ validation' = validateFails(v, "Please enter a valid URL")
                  /\ validateCalls' =
                        Append(validateCalls, ValidateFailed(call, "Please enter a valid URL"))
             [] OTHER ->
                  /\ validation' = [v EXCEPT !.progress = "Downloading from URL..."]
                  /\ validateCalls' = Append(validateCalls, NewValidate(input, "downloading"))
    /\ UNCHANGED <<store, urlCheckEnabled, urlCheckTimeout, vocab, cachedConfig, configFile,
                   cacheVars, probeVars, vocabLoadVars, metricVars, dimensionVars,
                   qualityVars, batchVars>>

\* the stage after an await that settled well, and the progress text set on the way
NextStage(stage) ==
    CASE stage = "downloading" -> "parsing"
      [] stage = "parsing" -> "shacl"
      [] stage = "shacl" -> "quality"
      [] OTHER -> "done"

StageProgress(stage) ==
    CASE stage = "parsing" -> "Parsing RDF..."
      [] stage = "shacl" -> "Running SHACL validation..."
      [] stage = "quality" -> "Calculating quality metrics..."
      [] OTHER -> ""

\* validate continues after the await at which call c stands: to the next await, to
\* setResult(validationResult) and the finally block, or into the catch block
ValidateContinues(c, outcome) ==
    /\ c \in DOMAIN validateCalls
    /\ validateCalls[c].pc # "done"
    /\ LET call == validateCalls[c]
           next == NextStage(call.pc)
       IN  IF ~outcome.ok
           THEN /\ validation' = validateFails(validation, outcome.message)
                /\ validateCalls' =
                      [validateCalls EXCEPT ![c] = ValidateFailed(call, outcome.message)]
           ELSE IF next = "done"
           THEN /\ validation' = [validation EXCEPT !.result = <<c>>, !.progress = "",
                                                    !.isLoading = FALSE]
                /\ validateCalls' =
                      [validateCalls EXCEPT ![c] = [call EXCEPT !.pc = "done", !.result = <<c>>]]
           ELSE /\ validation' = [validation EXCEPT !.progress = StageProgress(next)]
                /\ validateCalls' = [validateCalls EXCEPT ![c].pc = next]
    /\ UNCHANGED <<store, urlCheckEnabled, urlCheckTimeout, vocab, cachedConfig, configFile,
                   cacheVars, probeVars, vocabLoadVars, metricVars, dimensionVars,
                   qualityVars, batchVars>>

\* clear(): setResult(null); setError(null); setProgress('')
Clear ==
    /\ validation' = [validation EXCEPT !.result = <<>>, !.error = <<>>, !.progress = ""]
    /\ UNCHANGED <<store, urlCheckEnabled, urlCheckTimeout, vocab, cachedConfig, configFile,
                   cacheVars, probeVars, vocabLoadVars, validateCalls, metricVars,
                   dimensionVars, qualityVars, batchVars>>

InitValidation ==
    /\ store = {}
    /\ urlCheckEnabled = DEFAULT_CONFIG.enabled
    /\ urlCheckTimeout = DEFAULT_CONFIG.timeout
    /\ vocab = NullVocabularies
    /\ cachedConfig = NoConfig
    /\ configFile = NoConfig
    /\ MetricIdle
    /\ DimensionIdle
    /\ QualityIdle
    /\ BatchIdle
    /\ CacheIdle
    /\ LaterIdle

NextValidation ==
    \/ \E input \in ValidationInputs : Validate(input)
    \/ \E c \in DOMAIN validateCalls : \E outcome \in AwaitOutcomes(validateCalls[c].pc) :
          ValidateContinues(c, outcome)
    \/ Clear

SpecValidation == InitValidation /\ [][NextValidation]_vars

ValidatesInFlight == {c \in DOMAIN validateCalls : validateCalls[c].pc # "done"}

\* C30: in the hook's state result and error are never both set; isLoading is true
\* while a validate call is in flight; and when every validate call has finished
\* isLoading is false and result and error are as the last validate call left them, or
\* both null after a clear.
C30_HookStateConsistent ==
    /\ ~(validation.result # <<>> /\ validation.error # <<>>)
    /\ ValidatesInFlight # {} => validation.isLoading
    /\ (ValidatesInFlight = {} /\ validateCalls # <<>>) =>
          /\ ~validation.isLoading
          /\ \/ validation.result = <<>> /\ validation.error = <<>>
             \/ /\ validation.result = validateCalls[Len(validateCalls)].result
                /\ validation.error = validateCalls[Len(validateCalls)].error

====
